---- MODULE Spec2Model ----
\* A model of clockodo-cli: the date/time range resolution of src/lib/time.ts,
\* the entry aggregators of src/commands/entries.ts and src/commands/report.ts,
\* the report / entries-list / stop command handlers that use them, the status,
\* start, entries-create and delete handlers with their prompts, the error
\* handler of src/lib/errors.ts, computeDayStats of src/commands/worktimes.ts,
\* and the process-wide handles of src/lib/client.ts and src/lib/config.ts.
\*
\* Instants are integers: milliseconds since local-independent day 0 00:00:00.000
\* UTC, where day 0 stands for Monday 2026-03-16.  An ISO string without
\* milliseconds ("YYYY-MM-DDTHH:mm:ssZ") is the whole number of seconds it names.
\* A nullable value is a sequence of length at most one: <<>> is null, <<v>> is v.
EXTENDS Integers, Sequences, FiniteSets, TLC

VARIABLES
    zone,         \* the process's local time zone
    clock,        \* the wall clock, in ms
    ticks,        \* how often the clock has advanced (bounded)
    tInput,       \* SpecTime: the date string under test
    tSince,       \* SpecTime: <<parseDateTime(tInput)>> once applied
    tUntil,       \* SpecTime: <<parseDateTimeUntil(tInput)>> once applied
    cmd,          \* the command invoked: a report, list, stop, status, start,
                  \* create, or one of the delete commands
    sinceArg,     \* --since, nullable
    untilArg,     \* --until, nullable
    groupArg,     \* --group, nullable
    filterArgs,   \* --customer, --project, --service, --text, --user, each nullable
    pc,           \* position of the handler
    since,        \* custom: new Date(parseDateTime(--since)), nullable
    until,        \* custom: new Date(parseDateTime(--until)), nullable
    groupField,   \* the canonical grouping key once resolved, nullable
    calls,        \* the remote calls issued so far, in order
    exitCode,     \* the exit status once the command has ended, nullable
    entryList,    \* result.entries of getEntries
    aggPath,      \* which aggregator runs: "entries" (groupEntries) or "report" (groupEntriesByText)
    aggKey,       \* the key handed to the aggregator
    idx,          \* the next entry of the running loop
    map,          \* the aggregator's Map, in insertion order
    now,          \* groupEntriesByText, status: the `now` captured at the start, nullable
    readAt,       \* for each entry processed by the aggregator, the clock its duration was read at
    totalSeconds, \* entries list: the running total of line 79
    groups,       \* the returned groups, nullable
    clockReply,   \* stop: the answer of getClock once received, nullable
    storedCreds,  \* the config file: email and apiKey, each nullable
    envCreds,     \* CLOCKODO_EMAIL and CLOCKODO_API_KEY, each nullable
    clientInstance, \* client.ts: the cached Clockodo client, nullable
    configInstance, \* config.ts: the cached Conf store, nullable
    clientsMade,  \* how many Clockodo clients have been constructed
    storesMade,   \* how many Conf stores have been constructed
    clientHandles, \* the clients getClient has returned so far
    storeHandles, \* the stores getStore has returned so far
    auth,         \* what the last requireAuth call did, nullable
    resets,       \* how often resetClient / resetConfig have been called
    libCalls,     \* SpecProc: the library calls made so far, by name (bounded)
    globalFlags,  \* the global flags as typed: --json, --plain, --no-input
    stdio,        \* process.stdout.isTTY and CLOCKODO_AUTO_JSON
    cmdOpts,      \* the command's own flags and argument: --prompt, --force, --billable, <id>
    defaults,     \* the config file: defaultCustomerId, defaultServiceId, defaultProjectId
    billableDefaults, \* the remote's billableDefault of the project and of the customer
    picked,       \* the ids resolved and the user's answers to the prompts so far, nullable
    remoteError,  \* the error a failed remote call has rejected with, nullable
    output,       \* what the command has printed as its result, nullable
    intervals,    \* SpecDay: the intervals of the work-time day
    stats         \* SpecDay: <<computeDayStats(day)>> once applied

vars == <<zone, clock, ticks, tInput, tSince, tUntil, cmd, sinceArg, untilArg, groupArg,
          filterArgs, pc, since, until, groupField, calls, exitCode, entryList, aggPath,
          aggKey, idx, map, now, readAt, totalSeconds, groups, clockReply, storedCreds,
          envCreds, clientInstance, configInstance, clientsMade, storesMade,
          clientHandles, storeHandles, auth, resets, libCalls, globalFlags, stdio,
          cmdOpts, defaults, billableDefaults, picked, remoteError, output, intervals,
          stats>>

envVars  == <<zone, clock, ticks>>
timeVars == <<tInput, tSince, tUntil>>
dayVars  == <<intervals, stats>>
\* What the invocation is given: it never changes.
argVars  == <<cmd, sinceArg, untilArg, groupArg, filterArgs, globalFlags, stdio, cmdOpts,
              defaults, billableDefaults>>
cmdVars  == <<argVars, since, until, groupField, calls, exitCode, clockReply, picked,
              remoteError, output>>
aggVars  == <<entryList, aggPath, aggKey, idx, map, now, readAt, totalSeconds, groups>>
\* What getClient / getStore change, and the rest of the process-wide state.
handleVars == <<clientInstance, configInstance, clientsMade, storesMade, clientHandles,
                storeHandles, auth>>
credVars == <<storedCreds, envCreds, resets, libCalls>>
procVars == <<handleVars, credVars>>

\* ---------------------------------------------------------------- bounds

\* The last day a bare date may name (day 20 is Sunday 2026-04-05).
MaxDay == 20
\* How often the clock advances (by half a second) during one run.
MaxTicks == 2
\* The longest entry list handed to an aggregator on its own.
MaxEntries == 3
\* The longest entry list a remote reply carries in a whole command run.
MaxReplyLen == 1
\* The longest entry list getEntries answers `status` with.
MaxTodayLen == 2
\* How many calls of the client / config library one process makes in SpecProc.
MaxLibCalls == 4
\* The largest HTTP status handed to handleError on its own.
MaxStatus == 600
\* The most intervals a work-time day has.
MaxIntervals == 3

\* ---------------------------------------------------------------- values

None == <<>>
Some(v) == <<v>>
IsNull(o) == o = <<>>
Val(o) == o[1]

\* The parts of the state a specification does not use.
NoFilter == [customer |-> None, project |-> None, service |-> None, text |-> None,
             user |-> None]

NoCreds == [email |-> None, apiKey |-> None]

NoFlags == [json |-> FALSE, plain |-> FALSE, noInput |-> FALSE]
NoCmdOpts == [prompt |-> FALSE, force |-> FALSE, billable |-> None, id |-> ""]
NoDefaults == [customer |-> None, service |-> None, project |-> None]

\* The options the commands of the first part do not read.
IdleOpts ==
    /\ globalFlags = NoFlags /\ stdio = [isTTY |-> FALSE, autoJson |-> None]
    /\ cmdOpts = NoCmdOpts /\ defaults = NoDefaults
    /\ billableDefaults = [project |-> FALSE, customer |-> FALSE]

IdleArgs ==
    /\ cmd = "none" /\ sinceArg = None /\ untilArg = None /\ groupArg = None
    /\ filterArgs = NoFilter /\ IdleOpts

IdleCmd ==
    /\ IdleArgs
    /\ since = None /\ until = None /\ groupField = None /\ calls = <<>>
    /\ exitCode = None /\ clockReply = None
    /\ picked = None /\ remoteError = None /\ output = None

IdleDay == intervals = <<>> /\ stats = None

\* No handle has been created yet.
FreshProc ==
    /\ clientInstance = None /\ configInstance = None
    /\ clientsMade = 0 /\ storesMade = 0
    /\ clientHandles = {} /\ storeHandles = {}
    /\ auth = None /\ resets = [client |-> 0, config |-> 0] /\ libCalls = <<>>

IdleProc == FreshProc /\ storedCreds = NoCreds /\ envCreds = NoCreds

IdleAgg ==
    /\ entryList = <<>> /\ aggPath = "none" /\ aggKey = "none" /\ idx = 1
    /\ map = <<>> /\ now = None /\ readAt = <<>> /\ totalSeconds = 0 /\ groups = None

IdleTime == tInput = None /\ tSince = None /\ tUntil = None

MsPerSec  == 1000
MsPerMin  == 60 * 1000
MsPerHour == 60 * 60 * 1000
MsPerDay  == 24 * 60 * 60 * 1000

\* ---------------------------------------------------------------- local time
\* The local time zone of the process: the UTC offset is `before` until the local
\* wall clock of day `day` reads `at`, and `after` from then on.

\* UTC; Europe/Berlin (the config default), which springs forward on Sunday
\* 2026-03-29 (day 13) at 02:00; Australia/Sydney, which falls back on Sunday
\* 2026-04-05 (day 20) at 03:00.
Zones ==
    { [name |-> "UTC", before |-> 0, after |-> 0, day |-> 0, at |-> 0],
      [name |-> "Europe/Berlin", before |-> MsPerHour, after |-> 2 * MsPerHour,
       day |-> 13, at |-> 2 * MsPerHour],
      [name |-> "Australia/Sydney", before |-> 11 * MsPerHour, after |-> 10 * MsPerHour,
       day |-> 20, at |-> 3 * MsPerHour] }

\* The instant of the zone's offset change.
TransitionUtc(z) == z.day * MsPerDay + z.at - z.before

\* Date.prototype.getTimezoneOffset, as the offset added to UTC to get local time.
OffsetAtUtc(z, t) == IF t >= TransitionUtc(z) THEN z.after ELSE z.before

\* The local wall clock reading (ms since local day 0 00:00) of instant t.
UtcToLocal(z, t) == t + OffsetAtUtc(z, t)

\* The instant of a local wall clock reading (new Date("...T00:00:00"), setHours):
\* a reading that exists twice takes the earlier instant, one that does not exist
\* is read with the offset before the change.
LocalToUtc(z, local) ==
    LET t1 == local - z.before
        t2 == local - z.after
    IN IF OffsetAtUtc(z, t1) = z.before THEN t1
       ELSE IF OffsetAtUtc(z, t2) = z.after THEN t2
       ELSE t1

\* The local calendar day of an instant.
LocalDay(z, t) == UtcToLocal(z, t) \div MsPerDay

\* date-fns startOfDay: setHours(0, 0, 0, 0).
startOfDay(z, t) == LocalToUtc(z, LocalDay(z, t) * MsPerDay)

\* The end of the day taken as the next local midnight.
endOfDayLate(z, t) == LocalToUtc(z, (LocalDay(z, t) + 1) * MsPerDay)
\* date-fns endOfDay: setHours(23, 59, 59, 999).
endOfDay(z, t) == LocalToUtc(z, LocalDay(z, t) * MsPerDay + MsPerDay - 1)

\* date-fns addDays: setDate(getDate() + n), the wall clock reading kept.
addDays(z, t, n) == LocalToUtc(z, UtcToLocal(z, t) + n * MsPerDay)

\* Day 0 is a Monday: the days since the Monday of d's week.
DaysSinceMonday(d) == d % 7

\* startOfWeek(date, { weekStartsOn: 1 }).
startOfWeek(z, t) == LocalToUtc(z, (LocalDay(z, t) - DaysSinceMonday(LocalDay(z, t))) * MsPerDay)

\* endOfWeek(date, { weekStartsOn: 1 }).
endOfWeek(z, t) ==
    LocalToUtc(z, (LocalDay(z, t) - DaysSinceMonday(LocalDay(z, t)) + 6) * MsPerDay + MsPerDay - 1)

\* The calendar around day 0 = 2026-03-16: February is days -43..-16, March
\* -15..15, April 16..45.
MonthFirstDay(d) == IF d < 0 - 15 THEN 0 - 43 ELSE IF d <= 15 THEN 0 - 15 ELSE 16
MonthLastDay(d) == IF d < 0 - 15 THEN 0 - 16 ELSE IF d <= 15 THEN 15 ELSE 45

\* date-fns startOfMonth: setDate(1); setHours(0, 0, 0, 0).
startOfMonth(z, t) == LocalToUtc(z, MonthFirstDay(LocalDay(z, t)) * MsPerDay)

\* date-fns endOfMonth: the last day of the month, setHours(23, 59, 59, 999).
endOfMonth(z, t) == LocalToUtc(z, MonthLastDay(LocalDay(z, t)) * MsPerDay + MsPerDay - 1)

\* toClockodoDateTime: toISOString() with the ".mmm" cut off, i.e. the whole
\* seconds of the instant (the ISO fields are floored, also before day 0).
toClockodoDateTime(t) == t \div MsPerSec

\* new Date(isoString) of a string without milliseconds.
DateOf(s) == s * MsPerSec

\* ---------------------------------------------------------------- date strings
\* A date string is the form the regular expressions of parseDateTime sort it
\* into: a keyword (any letter case), a bare date YYYY-MM-DD (day), a date and
\* time "YYYY-MM-DD HH:mm" (day, minute of the day), or a bare time HH:mm.

Keyword(w)     == [kind |-> "keyword", word |-> w, day |-> 0, min |-> 0]
BareDate(d)    == [kind |-> "date", word |-> "", day |-> d, min |-> 0]
DateTime(d, m) == [kind |-> "datetime", word |-> "", day |-> d, min |-> m]
BareTime(m)    == [kind |-> "time", word |-> "", day |-> 0, min |-> m]
\* A string of no listed form that new Date(input) parses: "YYYY-MM-DDTHH:mm:00Z".
IsoUtc(d, m)   == [kind |-> "iso", word |-> "", day |-> d, min |-> m]
\* A string of no listed form that new Date(input) cannot parse.
Unparseable    == [kind |-> "unparseable", word |-> "next week", day |-> 0, min |-> 0]
\* A string of the bare-date form that names no date.
InvalidDate    == [kind |-> "invalid", word |-> "2026-13-01", day |-> 0, min |-> 0]

\* String.prototype.toLowerCase on the words the model uses.
toLowerCase(s) ==
    CASE s = "Today" -> "today"
      [] s = "YESTERDAY" -> "yesterday"
      [] s = "Description" -> "description"
      [] s = "TEXT" -> "text"
      [] s = "Customer" -> "customer"
      [] OTHER -> s

\* parseDateTime(input) throws: `Error("Cannot parse date")` of line 128 when
\* new Date(input) is invalid, the RangeError of toISOString() when a string of
\* the bare-date form names no date.  Neither is a CliError.
parseDateTimeThrows(input) == input.kind \in {"unparseable", "invalid"}

\* parseDateTime(input): the ISO string (in seconds) of the start of what the
\* string names; `clk` is what new Date() reads.
parseDateTime(z, clk, input) ==
    LET lower == toLowerCase(input.word) IN
    CASE input.kind = "keyword" /\ lower = "today" ->
            toClockodoDateTime(startOfDay(z, clk))
      [] input.kind = "keyword" /\ lower = "yesterday" ->
            toClockodoDateTime(startOfDay(z, addDays(z, clk, 0 - 1)))
      [] input.kind = "keyword" /\ lower = "tomorrow" ->
            toClockodoDateTime(startOfDay(z, addDays(z, clk, 1)))
      [] input.kind = "date" ->
            toClockodoDateTime(LocalToUtc(z, input.day * MsPerDay))
      [] input.kind = "datetime" ->
            toClockodoDateTime(LocalToUtc(z, input.day * MsPerDay + input.min * MsPerMin))
      [] input.kind = "time" ->
            toClockodoDateTime(LocalToUtc(z, LocalDay(z, clk) * MsPerDay + input.min * MsPerMin))
      [] input.kind = "iso" ->
            toClockodoDateTime(input.day * MsPerDay + input.min * MsPerMin)

\* parseDateTimeUntil with every input that names a day moved to the end of it.
parseDateTimeUntilShiftAll(z, clk, input) ==
    IF input.kind = "keyword"
    THEN LET lower == toLowerCase(input.word)
             offset == IF lower = "yesterday" THEN 0 - 1
                       ELSE IF lower = "tomorrow" THEN 1 ELSE 0
         IN toClockodoDateTime(endOfDay(z, addDays(z, clk, offset)))
    ELSE toClockodoDateTime(endOfDay(z, DateOf(parseDateTime(z, clk, input))))

\* parseDateTimeUntil(input): as parseDateTime, but a keyword or a bare date
\* resolves to the end of that local day.
parseDateTimeUntil(z, clk, input) ==
    LET lower == toLowerCase(input.word) IN
    IF input.kind = "keyword" /\ lower \in {"today", "yesterday", "tomorrow"}
    THEN LET offset == IF lower = "yesterday" THEN 0 - 1
                       ELSE IF lower = "tomorrow" THEN 1 ELSE 0
         IN toClockodoDateTime(endOfDay(z, addDays(z, clk, offset)))
    ELSE IF input.kind = "date"
    THEN toClockodoDateTime(endOfDay(z, LocalToUtc(z, input.day * MsPerDay)))
    ELSE parseDateTime(z, clk, input)

\* ---------------------------------------------------------------- inputs

\* The clock when the process starts: Sunday 2026-03-29 09:00:00.000 UTC, and
\* Saturday 2026-03-28 22:59:59.500 UTC (half a second before Berlin's midnight).
ClockStarts ==
    { 13 * MsPerDay + 9 * MsPerHour,
      12 * MsPerDay + 22 * MsPerHour + 59 * MsPerMin + 59 * MsPerSec + 500 }

Days == 12 .. MaxDay
MinutesOfDay == {0, 2 * 60 + 30, 14 * 60 + 30, 23 * 60 + 59}
Keywords == {"today", "Today", "YESTERDAY", "tomorrow"}

DateInputs ==
    {Keyword(w) : w \in Keywords} \cup {BareDate(d) : d \in Days}
    \cup {DateTime(d, m) : d \in Days, m \in MinutesOfDay}
    \cup {BareTime(m) : m \in MinutesOfDay}
    \cup {IsoUtc(d, 10 * 60) : d \in {13, 14}}

\* ---------------------------------------------------------------- the clock

\* Time passes: the wall clock advances by half a second.
Tick ==
    /\ ticks < MaxTicks
    /\ clock' = clock + 500
    /\ ticks' = ticks + 1
    /\ UNCHANGED <<zone, timeVars, dayVars, cmdVars, aggVars, procVars, pc>>

\* ---------------------------------------------------------------- entries
\* An entry as getEntries returns it.  A closed entry has its end instant and
\* the stored duration (end - start, in seconds); a running entry has neither.

ClosedEntry(tx, pj, start, d) ==
    [type |-> 1, text |-> tx, customersId |-> Some(10), projectsId |-> pj, servicesId |-> Some(1000),
     timeSince |-> start, timeUntil |-> Some(start + d * MsPerSec), duration |-> Some(d)]

RunningEntry(tx, pj, start) ==
    [type |-> 1, text |-> tx, customersId |-> Some(10), projectsId |-> pj, servicesId |-> Some(1000),
     timeSince |-> start, timeUntil |-> None, duration |-> None]

IsRunning(e) == IsNull(e.timeUntil)

\* A lump-sum entry: it is no time entry and has no duration.
LumpSumEntry(tx, pj, start) ==
    [type |-> 2, text |-> tx, customersId |-> Some(10), projectsId |-> pj,
     servicesId |-> Some(1000), timeSince |-> start, timeUntil |-> Some(start),
     duration |-> None]

\* isTimeEntry(e) of the clockodo SDK: e.type === EntryType.TimeEntry.
isTimeEntry(e) == e.type = 1

\* Saturday 2026-03-28, 08:00:00 and 22:00:00 UTC: before every ClockStarts.
EntryStartClosed  == 12 * MsPerDay + 8 * MsPerHour
EntryStartRunning == 12 * MsPerDay + 22 * MsPerHour

EntryPool ==
    { ClosedEntry(None, Some(100), EntryStartClosed, 1800),
      ClosedEntry(Some(""), None, EntryStartClosed, 3600),
      ClosedEntry(Some("A"), Some(100), EntryStartClosed, 3600),
      ClosedEntry(Some("B"), Some(101), EntryStartClosed, 1800),
      ClosedEntry(Some("(no description)"), Some(101), EntryStartClosed, 5400),
      RunningEntry(Some("A"), Some(101), EntryStartRunning),
      RunningEntry(None, None, EntryStartRunning) }

\* All sequences over S of length at most n.
SeqsUpTo(S, n) == UNION {[1 .. k -> S] : k \in 0 .. n}

\* ---------------------------------------------------------------- aggregation

\* getEntryDurationUntilNow(e) of the clockodo SDK: the stored duration of a
\* closed entry, the whole seconds from its start to the clock for a running one.
\* It takes no `now`: every call reads the clock (clk) itself.
getEntryDurationUntilNow(e, clk) ==
    IF IsRunning(e) THEN (clk - e.timeSince) \div MsPerSec ELSE Val(e.duration)

\* String(val) of a non-negative integer.
Digits == <<"0", "1", "2", "3", "4", "5", "6", "7", "8", "9">>
RECURSIVE String(_)
String(n) == IF n < 10 THEN Digits[n + 1] ELSE String(n \div 10) \o Digits[(n % 10) + 1]

\* (e as Record<string, unknown>)[key]: undefined for a key no entry has.
Field(e, key) ==
    CASE key = "customersId" -> e.customersId
      [] key = "projectsId" -> e.projectsId
      [] key = "servicesId" -> e.servicesId
      [] OTHER -> None

\* e.text ?? "(no description)": only null gets the sentinel.
TextKeyNullish(e) == IF IsNull(e.text) THEN "(no description)" ELSE Val(e.text)
\* e.text || "(no description)": null and "" are falsy.
TextKey(e) ==
    IF IsNull(e.text) \/ Val(e.text) = "" THEN "(no description)" ELSE Val(e.text)

\* The group key of an entry: groupEntries lines 337-343, groupEntriesByText line 78.
GroupValue(e, key) ==
    IF key = "text" THEN TextKey(e)
    ELSE IF IsNull(Field(e, key)) THEN "(none)" ELSE String(Val(Field(e, key)))

\* The time range of an entry (groupEntriesByText line 82); n is the captured `now`.
TimeRange(e, n) ==
    [since |-> e.timeSince, until |-> IF IsNull(e.timeUntil) THEN n ELSE Val(e.timeUntil)]

\* map.get(k): the position of key k in the map, 0 when absent.
MapIndex(m, k) ==
    IF \E i \in 1 .. Len(m) : m[i].key = k
    THEN CHOOSE i \in 1 .. Len(m) : m[i].key = k
    ELSE 0

\* The update of an existing group with timeRanges.unshift(timeRange).
AccumulatePrepend(g, d, ranges) ==
    [g EXCEPT !.count = @ + 1, !.seconds = @ + d, !.timeRanges = ranges \o @]
\* The update of an existing group without existing.count++.
AccumulateNoCount(g, d, ranges) ==
    [g EXCEPT !.seconds = @ + d, !.timeRanges = @ \o ranges]
\* The update of an existing group with existing.seconds = duration.
AccumulateOverwrite(g, d, ranges) ==
    [g EXCEPT !.count = @ + 1, !.seconds = d, !.timeRanges = @ \o ranges]
\* existing.count++; existing.seconds += duration; existing.timeRanges.push(timeRange)
Accumulate(g, d, ranges) ==
    [g EXCEPT !.count = @ + 1, !.seconds = @ + d, !.timeRanges = @ \o ranges]

\* One iteration of the loop: the entry with key k, duration d and (text mode of
\* the report) time range `ranges` goes to its group, a new key to the end.
MapPut(m, k, d, ranges) ==
    LET i == MapIndex(m, k) IN
    IF i > 0 THEN [m EXCEPT ![i] = Accumulate(m[i], d, ranges)]
    ELSE Append(m, [key |-> k, count |-> 1, seconds |-> d, timeRanges |-> ranges])

\* Array.prototype.sort with (a, b) => b.seconds - a.seconds: stable, so g goes
\* behind every group that does not have fewer seconds.
RECURSIVE InsertDesc(_, _)
InsertDesc(sorted, g) ==
    IF sorted = <<>> THEN <<g>>
    ELSE IF Head(sorted).seconds >= g.seconds
         THEN <<Head(sorted)>> \o InsertDesc(Tail(sorted), g)
         ELSE <<g>> \o sorted

RECURSIVE SortFrom(_, _)
SortFrom(sorted, rest) ==
    IF rest = <<>> THEN sorted ELSE SortFrom(InsertDesc(sorted, Head(rest)), Tail(rest))

\* The map's values in insertion order, unsorted.
sortBySecondsMissing(m) == m
\* [...map.values()].sort((a, b) => b.seconds - a.seconds)
sortBySeconds(m) == SortFrom(<<>>, m)

\* groups.reduce((sum, g) => sum + g.seconds, 0)
RECURSIVE SumSeconds(_)
SumSeconds(gs) == IF gs = <<>> THEN 0 ELSE Head(gs).seconds + SumSeconds(Tail(gs))

\* One pass of the aggregator's loop over entryList[idx]; its duration is read
\* from the clock as it stands now.
AggEntry ==
    /\ pc = "agg" /\ idx <= Len(entryList)
    /\ LET e == entryList[idx]
           k == GroupValue(e, aggKey)
           d == getEntryDurationUntilNow(e, clock)
           ranges == IF aggPath = "report" THEN <<TimeRange(e, Val(now))>> ELSE <<>>
       IN /\ map' = MapPut(map, k, d, ranges)
          /\ readAt' = Append(readAt, [at |-> clock, seconds |-> d])
    /\ idx' = idx + 1
    /\ UNCHANGED <<envVars, timeVars, dayVars, cmdVars, procVars, pc, entryList, aggPath,
                   aggKey, now, totalSeconds, groups>>

\* The loop is over: the sorted groups are returned; the report sums their
\* seconds (runTextReport line 128); the result is printed and the command ends.
AggReturn ==
    /\ pc = "agg" /\ idx > Len(entryList)
    /\ groups' = Some(sortBySeconds(map))
    /\ totalSeconds' = IF aggPath = "report" THEN SumSeconds(sortBySeconds(map))
                       ELSE totalSeconds
    /\ output' = Some([kind |-> "groups", groups |-> Val(groups'), total |-> totalSeconds'])
    /\ pc' = "done"
    /\ exitCode' = Some("SUCCESS")
    /\ UNCHANGED <<envVars, timeVars, dayVars, procVars, argVars, picked, remoteError, since,
                   until, groupField, calls, clockReply, entryList, aggPath, aggKey, idx, map,
                   now, readAt>>

\* ---------------------------------------------------------------- handles
\* The process-wide handles of client.ts and config.ts, and the credentials.

\* The credentials of the config file and of the environment.
FileCreds == [email |-> Some("file@example.com"), apiKey |-> Some("file-key")]
EnvCreds == [email |-> Some("env@example.com"), apiKey |-> Some("env-key")]

\* !value of a nullable string: null, undefined and "" are falsy.
Falsy(o) == IsNull(o) \/ Val(o) = ""

\* requireAuth(): getConfigValue(key) ?? process.env.KEY for both keys; a
\* CliError(CONFIG_ERROR) when either is missing or empty.  The result records
\* what the call has read.
requireAuth(stored, env) ==
    LET email == IF IsNull(stored.email) THEN env.email ELSE stored.email
        apiKey == IF IsNull(stored.apiKey) THEN env.apiKey ELSE stored.apiKey
    IN [threw |-> Falsy(email) \/ Falsy(apiKey), email |-> email, apiKey |-> apiKey,
        stored |-> stored, env |-> env]

\* getStore(), line 18: if (!configInstance).
NewStoreNeeded(instance) == IsNull(instance)

\* getClient() that constructs a client on every call.
NewClientNeededAlways(instance) == TRUE
\* getClient(), line 8: if (!clientInstance).
NewClientNeeded(instance) == IsNull(instance)

\* getStore(): the Conf store is constructed on first use and cached.
getStore ==
    LET made == NewStoreNeeded(configInstance)
        handle == IF made THEN storesMade + 1 ELSE Val(configInstance)
    IN /\ configInstance' = Some(handle)
       /\ storesMade' = IF made THEN storesMade + 1 ELSE storesMade
       /\ storeHandles' = storeHandles \cup {handle}

\* getClient() throws: no client is cached and requireAuth() throws.
getClientThrows ==
    NewClientNeeded(clientInstance) /\ requireAuth(storedCreds, envCreds).threw

\* getClient(): the cached client, or a new one built from requireAuth().
getClient ==
    IF ~NewClientNeeded(clientInstance)
    THEN /\ clientHandles' = clientHandles \cup {Val(clientInstance).id}
         /\ UNCHANGED <<clientInstance, clientsMade, configInstance, storesMade,
                        storeHandles, auth>>
    ELSE LET a == requireAuth(storedCreds, envCreds) IN
         /\ getStore
         /\ auth' = Some(a)
         /\ IF a.threw
            THEN UNCHANGED <<clientInstance, clientsMade, clientHandles>>
            ELSE /\ clientInstance' = Some([id |-> clientsMade + 1,
                                            email |-> Val(a.email), apiKey |-> Val(a.apiKey)])
                 /\ clientsMade' = clientsMade + 1
                 /\ clientHandles' = clientHandles \cup {clientsMade + 1}

\* ---------------------------------------------------------------- commands
\* One invocation of `report today|week|month|custom`, of `entries list` or of
\* `stop`.

ReportCmds == {"today", "week", "month", "custom"}

\* GROUP_ALIASES[input.toLowerCase()] of report.ts; None when the lookup gives
\* undefined.  GROUP_ALIASES is a plain object: a name it inherits from
\* Object.prototype is found as well, and its value is truthy.
ReportAlias(input) ==
    LET k == toLowerCase(input) IN
    CASE k \in {"customer", "customers", "customers_id"} -> Some("customers_id")
      [] k \in {"project", "projects", "projects_id"} -> Some("projects_id")
      [] k \in {"service", "services", "services_id"} -> Some("services_id")
      [] k \in {"text", "description"} -> Some("text")
      [] k = "constructor" -> Some("Object.prototype.constructor")
      [] k = "__proto__" -> Some("Object.prototype")
      [] OTHER -> None

\* aliases[input.toLowerCase()] of resolveGroupKey in entries.ts, a plain object
\* as well.
EntriesAlias(input) ==
    LET k == toLowerCase(input) IN
    CASE k \in {"customer", "customers", "customers_id"} -> Some("customersId")
      [] k \in {"project", "projects", "projects_id"} -> Some("projectsId")
      [] k \in {"service", "services", "services_id"} -> Some("servicesId")
      [] k \in {"text", "description"} -> Some("text")
      [] k = "constructor" -> Some("Object.prototype.constructor")
      [] k = "__proto__" -> Some("Object.prototype")
      [] OTHER -> None

\* runReport line 185 with the test inverted.
IsTextFieldInverted(field) == field # "text"
\* runReport line 185: groupField === "text".
IsTextField(field) == field = "text"

\* The custom action's check with `since > until`.
RangeRejectedStrict(s, u) == s > u
\* The custom action's check, line 287: since >= until.
RangeRejected(s, u) == s >= u

\* The errors a handler throws: a CliError carries its exit code, any other
\* Error carries none.
CliError(code) == [type |-> "CliError", exitCode |-> code]
PlainError == [type |-> "Error", exitCode |-> ""]

\* The error the clockodo SDK rejects with when the remote answers with an
\* error: it carries a `response` object whose status may be missing.
ApiError(status) == [type |-> "ApiError", exitCode |-> "", status |-> status]

\* ExitCode, by name.
ExitCode ==
    [SUCCESS |-> 0, GENERAL_ERROR |-> 1, INVALID_ARGS |-> 2, EMPTY_RESULTS |-> 3,
     AUTH_FAILURE |-> 4, NOT_FOUND |-> 5, FORBIDDEN |-> 6, RATE_LIMITED |-> 7,
     SERVER_ERROR |-> 8, CONFIG_ERROR |-> 10]

\* mapHttpError with `statusCode > 500` for the server errors.
mapHttpErrorAbove500(statusCode) ==
    CASE statusCode = 401 -> "AUTH_FAILURE"
      [] statusCode = 403 -> "FORBIDDEN"
      [] statusCode = 404 -> "NOT_FOUND"
      [] statusCode = 429 -> "RATE_LIMITED"
      [] statusCode > 500 -> "SERVER_ERROR"
      [] OTHER -> "GENERAL_ERROR"
\* mapHttpError(statusCode): switch (true) takes the first case that holds.
mapHttpError(statusCode) ==
    IF statusCode = 401 THEN "AUTH_FAILURE"
    ELSE IF statusCode = 403 THEN "FORBIDDEN"
    ELSE IF statusCode = 404 THEN "NOT_FOUND"
    ELSE IF statusCode = 429 THEN "RATE_LIMITED"
    ELSE IF statusCode >= 500 THEN "SERVER_ERROR"
    ELSE "GENERAL_ERROR"

\* extractApiError(error).statusCode: response.status ?? 0 of an error that has
\* a response object, null (None) for any other error.
extractApiError(e) ==
    IF e.type = "ApiError"
    THEN Some(IF IsNull(e.status) THEN 0 ELSE Val(e.status))
    ELSE None

\* handleError: a CliError exits with its code, an API error with the code its
\* HTTP status maps to, an unknown error with GENERAL_ERROR.
handleError(e) ==
    IF e.type = "CliError" THEN e.exitCode
    ELSE IF ~IsNull(extractApiError(e)) THEN mapHttpError(Val(extractApiError(e)))
    ELSE "GENERAL_ERROR"

\* The command ends with the given exit code.
Fail(code) ==
    /\ pc' = "done"
    /\ exitCode' = Some(code)

\* The handler throws e: main catches it and hands it to handleError.
Throw(e) == Fail(handleError(e))

\* The keys of a filter object.
FilterKeys == {"customersId", "projectsId", "servicesId", "text", "usersId"}

\* The filter object of the given options.
FilterOf(o) ==
    [customersId |-> o.customer, projectsId |-> o.project, servicesId |-> o.service,
     text |-> o.text, usersId |-> o.user]

\* Object.keys(filter)
ObjectKeys(f) == {k \in FilterKeys : ~IsNull(f[k])}

\* buildFilter that returns the object also when it is empty.
buildFilterEmptyObject(o) == Some(FilterOf(o))
\* buildFilter that takes an option only when it is truthy.
buildFilterTruthy(o) ==
    LET f == FilterOf([o EXCEPT !.text = IF Falsy(o.text) THEN None ELSE o.text])
    IN IF ObjectKeys(f) # {} THEN Some(f) ELSE None
\* buildFilter(cmdOpts): every option that is not undefined goes into the
\* object; an object without keys is returned as undefined, so that the request
\* gets no `filter` property (None).
buildFilter(o) ==
    LET f == FilterOf(o)
    IN IF ObjectKeys(f) # {} THEN Some(f) ELSE None

\* The filter of entries list (lines 54-63): an option is taken when it is
\* truthy; there is no --user; the property is left out when there is no key.
listFilter(o) ==
    LET f == [customersId |-> IF ~IsNull(o.customer) /\ Val(o.customer) # 0
                              THEN o.customer ELSE None,
              projectsId |-> IF ~IsNull(o.project) /\ Val(o.project) # 0
                             THEN o.project ELSE None,
              servicesId |-> IF ~IsNull(o.service) /\ Val(o.service) # 0
                             THEN o.service ELSE None,
              text |-> IF Falsy(o.text) THEN None ELSE o.text,
              usersId |-> None]
    IN IF ObjectKeys(f) # {} THEN Some(f) ELSE None

\* The request of getEntries / getEntryGroups, as recorded in `calls`.
Call(op, s, u, grouping, filter) ==
    [op |-> op, timeSince |-> s, timeUntil |-> u, grouping |-> grouping,
     filter |-> filter]

\* runReport(program, since, until, cmdOpts) up to its await: the group key is
\* resolved first; `text` goes to runTextReport and getEntries, a structured
\* key to getEntryGroups; either gets the client and builds the filter before
\* the request.  s and u are Dates.
RunReport(s, u) ==
    LET alias == ReportAlias(IF IsNull(groupArg) THEN "project" ELSE Val(groupArg)) IN
    IF IsNull(alias)
    THEN /\ Throw(CliError("INVALID_ARGS"))
         /\ UNCHANGED <<groupField, calls, handleVars>>
    ELSE /\ groupField' = alias
         /\ getClient
         /\ IF getClientThrows
            THEN /\ Throw(CliError("CONFIG_ERROR"))
                 /\ UNCHANGED calls
            ELSE /\ exitCode' = exitCode
                 /\ IF IsTextField(Val(alias))
                    THEN /\ calls' = Append(calls,
                                Call("getEntries", toClockodoDateTime(s),
                                     toClockodoDateTime(u), None, buildFilter(filterArgs)))
                         /\ pc' = "awaitEntries"
                    ELSE /\ calls' = Append(calls,
                                Call("getEntryGroups", toClockodoDateTime(s),
                                     toClockodoDateTime(u), alias, buildFilter(filterArgs)))
                         /\ pc' = "awaitGroups"

\* report today: const now = new Date(); runReport(startOfDay(now), endOfDay(now)).
ReportToday ==
    /\ pc = "start" /\ cmd = "today"
    /\ RunReport(startOfDay(zone, clock), endOfDay(zone, clock))
    /\ UNCHANGED <<envVars, timeVars, dayVars, aggVars, credVars, argVars, picked, remoteError,
                   output, since, until, clockReply>>

\* report week: runReport(startOfWeek(now), endOfWeek(now)).
ReportWeek ==
    /\ pc = "start" /\ cmd = "week"
    /\ RunReport(startOfWeek(zone, clock), endOfWeek(zone, clock))
    /\ UNCHANGED <<envVars, timeVars, dayVars, aggVars, credVars, argVars, picked, remoteError,
                   output, since, until, clockReply>>

\* report month: runReport(startOfMonth(now), endOfMonth(now)).
ReportMonth ==
    /\ pc = "start" /\ cmd = "month"
    /\ RunReport(startOfMonth(zone, clock), endOfMonth(zone, clock))
    /\ UNCHANGED <<envVars, timeVars, dayVars, aggVars, credVars, argVars, picked, remoteError,
                   output, since, until, clockReply>>

\* report custom, line 285: const since = new Date(parseDateTime(cmdOpts.since)).
CustomSince ==
    /\ pc = "start" /\ cmd = "custom"
    /\ IF parseDateTimeThrows(Val(sinceArg))
       THEN /\ Throw(PlainError)
            /\ UNCHANGED since
       ELSE /\ since' = Some(DateOf(parseDateTime(zone, clock, Val(sinceArg))))
            /\ pc' = "sinceParsed"
            /\ exitCode' = exitCode
    /\ UNCHANGED <<envVars, timeVars, dayVars, aggVars, procVars, argVars, picked, remoteError,
                   output, until, groupField, calls, clockReply>>

\* report custom, lines 286-290: until is parsed with parseDateTime as well; the
\* range is checked; then runReport.
CustomUntil ==
    /\ pc = "sinceParsed" /\ cmd = "custom"
    /\ IF parseDateTimeThrows(Val(untilArg))
       THEN /\ Throw(PlainError)
            /\ UNCHANGED <<until, groupField, calls, handleVars>>
       ELSE LET u == DateOf(parseDateTime(zone, clock, Val(untilArg))) IN
            /\ until' = Some(u)
            /\ IF RangeRejected(Val(since), u)
               THEN /\ Throw(CliError("INVALID_ARGS"))
                    /\ UNCHANGED <<groupField, calls, handleVars>>
               ELSE RunReport(Val(since), u)
    /\ UNCHANGED <<envVars, timeVars, dayVars, aggVars, credVars, argVars, picked, remoteError,
                   output, since, clockReply>>

\* entries list, lines 46-49: the client is fetched first, then
\* const since = parseDateTime(cmdOpts.since).
ListSince ==
    /\ pc = "start" /\ cmd = "list"
    /\ getClient
    /\ IF getClientThrows
       THEN /\ Throw(CliError("CONFIG_ERROR"))
            /\ UNCHANGED since
       ELSE IF parseDateTimeThrows(Val(sinceArg))
       THEN /\ Throw(PlainError)
            /\ UNCHANGED since
       ELSE /\ since' = Some(DateOf(parseDateTime(zone, clock, Val(sinceArg))))
            /\ pc' = "sinceParsed"
            /\ exitCode' = exitCode
    /\ UNCHANGED <<envVars, timeVars, dayVars, aggVars, credVars, argVars, picked, remoteError,
                   output, until, groupField, calls, clockReply>>

\* entries list, lines 50-64: until is parseDateTime(--until), or the end of
\* today without --until; getEntries is called with the two strings.
ListUntil ==
    /\ pc = "sinceParsed" /\ cmd = "list"
    /\ IF ~IsNull(untilArg) /\ parseDateTimeThrows(Val(untilArg))
       THEN /\ Throw(PlainError)
            /\ UNCHANGED <<until, calls>>
       ELSE LET u == IF IsNull(untilArg) THEN toClockodoDateTime(endOfDay(zone, clock))
                     ELSE parseDateTime(zone, clock, Val(untilArg)) IN
            /\ until' = Some(DateOf(u))
            /\ calls' = Append(calls, Call("getEntries", toClockodoDateTime(Val(since)), u,
                                           None, listFilter(filterArgs)))
            /\ pc' = "awaitEntries"
            /\ exitCode' = exitCode
    /\ UNCHANGED <<envVars, timeVars, dayVars, aggVars, procVars, argVars, picked, remoteError,
                   output, since, groupField, clockReply>>

\* What a failed remote call rejects with: an API error with a status, or an
\* error without a response (the network is down).
RemoteErrors == {ApiError(Some(401)), ApiError(Some(503)), PlainError}

\* The positions at which the handler awaits a remote call.
Awaiting ==
    {"awaitEntries", "awaitGroups", "awaitClock", "awaitStop",
     "awaitPromptClock", "awaitBoth", "awaitClockLast", "awaitEntriesLast",
     "awaitCustomers", "awaitProjects", "awaitServices", "awaitWrite", "awaitDelete"}

\* A failed remote call that is issued once more.
RemoteFailsRetried ==
    /\ pc \in Awaiting /\ Len(calls) < 4
    /\ \E e \in RemoteErrors : remoteError' = Some(e)
    /\ calls' = Append(calls, calls[Len(calls)])
    /\ UNCHANGED <<envVars, timeVars, dayVars, aggVars, procVars, argVars, picked, output,
                   since, until, groupField, clockReply, pc, exitCode>>
\* The remote call fails: the rejection propagates out of the handler, reaches
\* handleError in main and the command ends.
RemoteFails ==
    /\ pc \in Awaiting
    /\ \E e \in RemoteErrors :
          /\ remoteError' = Some(e)
          /\ Throw(e)
    /\ UNCHANGED <<envVars, timeVars, dayVars, aggVars, procVars, argVars, picked, output,
                   since, until, groupField, calls, clockReply>>

\* What getEntryGroups may answer: no group, or two groups.
RemoteGroupReplies ==
    { <<>>,
      <<[name |-> "Website", group |-> "1", duration |-> 7200],
        [name |-> "API", group |-> "2", duration |-> 3600]>> }

RECURSIVE SumDuration(_)
SumDuration(gs) == IF gs = <<>> THEN 0 ELSE Head(gs).duration + SumDuration(Tail(gs))

\* getEntryGroups answers (runReport lines 200-232): the groups are used as they
\* come, their durations summed, the result printed.
GroupsReply ==
    /\ pc = "awaitGroups"
    /\ \E reply \in RemoteGroupReplies :
          /\ groups' = Some(reply)
          /\ totalSeconds' = SumDuration(reply)
    /\ output' = Some([kind |-> "groups", groups |-> Val(groups'), total |-> totalSeconds'])
    /\ pc' = "done"
    /\ exitCode' = Some("SUCCESS")
    /\ UNCHANGED <<envVars, timeVars, dayVars, procVars, argVars, picked, remoteError, since,
                   until, groupField, calls, clockReply, entryList, aggPath, aggKey, idx, map,
                   now, readAt>>

\* The entries a remote reply is made of.
ReplyPool ==
    { ClosedEntry(Some("A"), Some(100), EntryStartClosed, 3600),
      RunningEntry(None, None, EntryStartRunning) }

\* getEntries answers.  entries list (lines 66-79): an empty list is printed and
\* the command ends, otherwise the total is summed first.  report (runTextReport
\* lines 126-127): groupEntriesByText starts and captures `now`.
EntriesReply ==
    /\ pc = "awaitEntries"
    /\ entryList' \in SeqsUpTo(ReplyPool, MaxReplyLen)
    /\ idx' = 1
    /\ IF cmd = "list"
       THEN /\ IF entryList' = <<>>
               THEN /\ pc' = "done" /\ exitCode' = Some("SUCCESS")
                    /\ output' = Some([kind |-> "list", entries |-> <<>>, total |-> 0])
               ELSE /\ pc' = "total" /\ exitCode' = exitCode
                    /\ output' = output
            /\ UNCHANGED <<aggPath, aggKey, now>>
       ELSE /\ aggPath' = "report"
            /\ aggKey' = "text"
            /\ now' = Some(clock)
            /\ pc' = "agg"
            /\ exitCode' = exitCode
            /\ output' = output
    /\ UNCHANGED <<envVars, timeVars, dayVars, procVars, argVars, picked, remoteError, since,
                   until, groupField, calls, clockReply, map, readAt, totalSeconds, groups>>

\* entries list, line 79: one step of entryList.reduce((sum, e) => sum +
\* getEntryDurationUntilNow(e), 0).
TotalEntry ==
    /\ pc = "total" /\ idx <= Len(entryList)
    /\ totalSeconds' = totalSeconds + getEntryDurationUntilNow(entryList[idx], clock)
    /\ idx' = idx + 1
    /\ UNCHANGED <<envVars, timeVars, dayVars, cmdVars, procVars, pc, entryList, aggPath,
                   aggKey, map, now, readAt, groups>>

\* entries list, lines 82-125, the total being summed: with --group the key is
\* resolved now and groupEntries starts; without, the list is printed.
ListAfterTotal ==
    /\ pc = "total" /\ idx > Len(entryList)
    /\ IF IsNull(groupArg)
       THEN /\ pc' = "done" /\ exitCode' = Some("SUCCESS")
            /\ output' = Some([kind |-> "list", entries |-> entryList,
                               total |-> totalSeconds])
            /\ UNCHANGED <<groupField, aggPath, aggKey, idx>>
       ELSE IF IsNull(EntriesAlias(Val(groupArg)))
       THEN /\ Throw(CliError("INVALID_ARGS"))
            /\ UNCHANGED <<groupField, aggPath, aggKey, idx, output>>
       ELSE /\ output' = output
            /\ groupField' = EntriesAlias(Val(groupArg))
            /\ aggPath' = "entries"
            /\ aggKey' = Val(EntriesAlias(Val(groupArg)))
            /\ idx' = 1
            /\ pc' = "agg"
            /\ exitCode' = exitCode
    /\ UNCHANGED <<envVars, timeVars, dayVars, procVars, argVars, picked, remoteError, since,
                   until, calls, clockReply, entryList, map, now, readAt, totalSeconds, groups>>

\* stop, lines 75-78: the client is fetched and getClock is called.
StopGetClock ==
    /\ pc = "start" /\ cmd = "stop"
    /\ getClient
    /\ IF getClientThrows
       THEN /\ Throw(CliError("CONFIG_ERROR"))
            /\ UNCHANGED calls
       ELSE /\ calls' = Append(calls, [op |-> "getClock"])
            /\ pc' = "awaitClock"
            /\ exitCode' = exitCode
    /\ UNCHANGED <<envVars, timeVars, dayVars, aggVars, credVars, argVars, picked, remoteError,
                   output, since, until, groupField, clockReply>>

\* What getClock may answer: no running entry, or one of two running entries.
ClockReplies ==
    { [running |-> None],
      [running |-> Some([id |-> 42, usersId |-> 7, timeSince |-> EntryStartRunning])],
      [running |-> Some([id |-> 43, usersId |-> 7, timeSince |-> EntryStartRunning])] }

\* stopClock({ entriesId: clock.running.id }) with the user's id for the entry's.
StopRequestByUser(running) == [op |-> "stopClock", entriesId |-> running.usersId]
\* stopClock({ entriesId: clock.running.id })
StopRequest(running) == [op |-> "stopClock", entriesId |-> running.id]

\* stop, lines 78-83: getClock answers; without a running entry the command
\* throws EMPTY_RESULTS, with one it calls stopClock for that entry.
ClockReply ==
    /\ pc = "awaitClock"
    /\ \E reply \in ClockReplies :
          /\ clockReply' = Some(reply)
          /\ IF IsNull(reply.running)
             THEN /\ Throw(CliError("EMPTY_RESULTS"))
                  /\ UNCHANGED calls
             ELSE /\ calls' = Append(calls, StopRequest(Val(reply.running)))
                  /\ pc' = "awaitStop"
                  /\ exitCode' = exitCode
    /\ UNCHANGED <<envVars, timeVars, dayVars, aggVars, procVars, argVars, picked, remoteError,
                   output, since, until, groupField>>

\* stop, lines 85-95: stopClock answers and the result is printed.
StopReply ==
    /\ pc = "awaitStop"
    /\ output' = Some([kind |-> "stopped", entry |-> Val(Val(clockReply).running).id])
    /\ pc' = "done"
    /\ exitCode' = Some("SUCCESS")
    /\ UNCHANGED <<envVars, timeVars, dayVars, aggVars, procVars, argVars, picked, remoteError,
                   since, until, groupField, calls, clockReply>>

\* ---------------------------------------------------------------- options and modes

\* program.opts() of commander for the global flags as typed: `--no-input`
\* declares the option `input`, true unless the flag is given; there is no
\* property `noInput`.
programOpts(flags) == [json |-> flags.json, plain |-> flags.plain, input |-> ~flags.noInput]

\* opts.noInput: undefined (falsy) on an object without that property.
OptNoInput(opts) == IF "noInput" \in DOMAIN opts THEN opts.noInput ELSE FALSE

\* resolveOutputMode(options)
resolveOutputMode(opts, io) ==
    IF opts.json THEN "json"
    ELSE IF opts.plain THEN "plain"
    ELSE IF ~io.isTTY /\ io.autoJson # Some("0") THEN "json"
    ELSE "human"

\* shouldPrompt(opts, mode)
shouldPrompt(opts, mode, io) ==
    IF OptNoInput(opts) THEN FALSE
    ELSE IF mode # "human" THEN FALSE
    ELSE IF ~io.isTTY THEN FALSE
    ELSE TRUE

\* The output mode of this invocation.
Mode == resolveOutputMode(programOpts(globalFlags), stdio)

\* ---------------------------------------------------------------- status

\* elapsedSince(isoString): differenceInSeconds(new Date(), new Date(isoString)),
\* whole seconds, truncated toward zero.
elapsedSince(clk, t) ==
    IF clk >= t THEN (clk - t) \div MsPerSec ELSE -((t - clk) \div MsPerSec)

\* The remote calls of status with getEntries also on the --prompt path.
StatusCallsBoth(prompt, n) ==
    <<[op |-> "getClock"],
      Call("getEntries", toClockodoDateTime(startOfDay(zone, n)),
           toClockodoDateTime(endOfDay(zone, n)), None, None)>>
\* The remote calls of status: getClock alone with --prompt (line 28); getClock
\* and getEntries for today, started together, without (lines 57-63).
StatusCalls(prompt, n) ==
    IF prompt THEN <<[op |-> "getClock"]>>
    ELSE <<[op |-> "getClock"],
           Call("getEntries", toClockodoDateTime(startOfDay(zone, n)),
                toClockodoDateTime(endOfDay(zone, n)), None, None)>>

\* status, lines 22-63: the client is fetched; with --prompt getClock is called;
\* without, `now` is read and getClock and getEntries are started together.
StatusStart ==
    /\ pc = "start" /\ cmd = "status"
    /\ getClient
    /\ IF getClientThrows
       THEN /\ Throw(CliError("CONFIG_ERROR"))
            /\ UNCHANGED <<calls, now>>
       ELSE /\ calls' = calls \o StatusCalls(cmdOpts.prompt, clock)
            /\ now' = IF cmdOpts.prompt THEN now ELSE Some(clock)
            /\ pc' = IF cmdOpts.prompt THEN "awaitPromptClock" ELSE "awaitBoth"
            /\ exitCode' = exitCode
    /\ UNCHANGED <<envVars, timeVars, dayVars, credVars, argVars, since, until, groupField,
                   clockReply, picked, remoteError, output, entryList, aggPath, aggKey,
                   idx, map, readAt, totalSeconds, groups>>

\* status --prompt, lines 28-53: getClock answers; the line is printed, except
\* in human mode with no clock running.
StatusPromptReply ==
    /\ pc = "awaitPromptClock"
    /\ \E reply \in ClockReplies :
          LET running == reply.running
              elapsed == IF IsNull(running) THEN 0
                         ELSE elapsedSince(clock, Val(running).timeSince)
          IN /\ clockReply' = Some(reply)
             /\ output' = IF Mode # "human" \/ ~IsNull(running)
                           THEN Some([kind |-> "prompt", running |-> ~IsNull(running),
                                      elapsed |-> elapsed])
                           ELSE output
    /\ pc' = "done"
    /\ exitCode' = Some("SUCCESS")
    /\ UNCHANGED <<envVars, timeVars, dayVars, aggVars, procVars, argVars, since, until,
                   groupField, calls, picked, remoteError>>

\* The entries getEntries answers status with.
TodayPool ==
    { ClosedEntry(Some("A"), Some(100), EntryStartClosed, 3600),
      ClosedEntry(Some("B"), Some(101), EntryStartClosed, 1800),
      RunningEntry(None, None, EntryStartRunning),
      LumpSumEntry(Some("fee"), None, EntryStartClosed) }

\* totalSeconds + runningSeconds without the running seconds.
statusTotalStored(stored, runningSeconds) == stored
\* lines 90: totalSeconds + runningSeconds
statusTotal(stored, runningSeconds) == stored + runningSeconds

\* lines 67-70: entries.reduce((sum, e) => sum + (isTimeEntry(e) ? (e.duration ?? 0) : 0), 0)
RECURSIVE SumStored(_)
SumStored(es) ==
    IF es = <<>> THEN 0
    ELSE (IF isTimeEntry(Head(es)) /\ ~IsNull(Head(es).duration)
          THEN Val(Head(es).duration) ELSE 0) + SumStored(Tail(es))

\* status, lines 65-117, both answers being there: the stored durations are
\* summed, the running seconds read once, and the summary printed.
StatusSummary(reply, es) ==
    LET running == reply.running
        runningSeconds == IF IsNull(running) THEN 0
                          ELSE elapsedSince(clock, Val(running).timeSince)
    IN /\ totalSeconds' = SumStored(es)
       /\ output' = Some([kind |-> "status",
                          running |-> IF IsNull(running) THEN None
                                      ELSE Some([id |-> Val(running).id,
                                                 elapsed |-> runningSeconds]),
                          today |-> [entries |-> Len(es),
                                     totalSeconds |->
                                         statusTotal(SumStored(es), runningSeconds)]])
       /\ pc' = "done"
       /\ exitCode' = Some("SUCCESS")

\* status: getClock answers, before or after getEntries.
StatusClockReply ==
    /\ pc \in {"awaitBoth", "awaitClockLast"}
    /\ \E reply \in ClockReplies :
          /\ clockReply' = Some(reply)
          /\ IF pc = "awaitBoth"
             THEN /\ pc' = "awaitEntriesLast"
                  /\ UNCHANGED <<exitCode, output, totalSeconds>>
             ELSE StatusSummary(reply, entryList)
    /\ UNCHANGED <<envVars, timeVars, dayVars, procVars, argVars, since, until, groupField,
                   calls, picked, remoteError, entryList, aggPath, aggKey, idx, map, now,
                   readAt, groups>>

\* status: getEntries answers, before or after getClock.
StatusEntriesReply ==
    /\ pc \in {"awaitBoth", "awaitEntriesLast"}
    /\ \E es \in SeqsUpTo(TodayPool, MaxTodayLen) :
          /\ entryList' = es
          /\ IF pc = "awaitBoth"
             THEN /\ pc' = "awaitClockLast"
                  /\ UNCHANGED <<exitCode, output, totalSeconds>>
             ELSE StatusSummary(Val(clockReply), es)
    /\ UNCHANGED <<envVars, timeVars, dayVars, procVars, argVars, since, until, groupField,
                   calls, picked, remoteError, clockReply, aggPath, aggKey, idx, map, now,
                   readAt, groups>>

\* ---------------------------------------------------------------- start, entries create

\* a ?? b
Nullish(a, b) == IF IsNull(a) THEN b ELSE a

\* !id of an optional number: undefined and 0 are falsy.
FalsyId(o) == IsNull(o) \/ Val(o) = 0

\* clock.ts lines 28-30, entries.ts lines 199-201: cmdOpts.x ?? getConfigValue(...)
ResolvedIds ==
    [customersId |-> Nullish(filterArgs.customer, defaults.customer),
     servicesId |-> Nullish(filterArgs.service, defaults.service),
     projectsId |-> Nullish(filterArgs.project, defaults.project)]

\* !customersId || !servicesId
IdsMissing(ids) == FalsyId(ids.customersId) \/ FalsyId(ids.servicesId)

\* clock.ts lines 47-55: the request of startClock; billable is sent only when
\* --billable or --no-billable was given.
StartRequest(ids) ==
    [op |-> "startClock", customersId |-> Val(ids.customersId),
     servicesId |-> Val(ids.servicesId),
     billable |-> IF IsNull(cmdOpts.billable) THEN None
                  ELSE Some(IF Val(cmdOpts.billable) THEN 1 ELSE 0),
     projectsId |-> IF FalsyId(ids.projectsId) THEN None ELSE ids.projectsId,
     text |-> IF Falsy(filterArgs.text) THEN None ELSE filterArgs.text]

\* entries.ts line 222: billable: cmdOpts.billable ? 1 : 0
CreateBillable(flag) == IF ~IsNull(flag) /\ Val(flag) THEN 1 ELSE 0

\* entries.ts lines 219-227: the request of addEntry.
AddRequest(ids) ==
    [op |-> "addEntry", customersId |-> Val(ids.customersId),
     servicesId |-> Val(ids.servicesId),
     billable |-> Some(CreateBillable(cmdOpts.billable)),
     timeSince |-> parseDateTime(zone, clock, Val(sinceArg)),
     timeUntil |-> parseDateTime(zone, clock, Val(untilArg)),
     projectsId |-> IF FalsyId(ids.projectsId) THEN None ELSE ids.projectsId,
     text |-> IF Falsy(filterArgs.text) THEN None ELSE filterArgs.text]

\* clock.ts lines 39-55, entries.ts lines 211-227: without a customer or a
\* service the handler throws INVALID_ARGS; otherwise the request is built and
\* sent.
Submit(ids) ==
    IF IdsMissing(ids)
    THEN /\ Throw(CliError("INVALID_ARGS"))
         /\ UNCHANGED calls
    ELSE IF cmd = "create" /\ (\/ parseDateTimeThrows(Val(sinceArg))
                               \/ parseDateTimeThrows(Val(untilArg)))
    THEN /\ Throw(PlainError)
         /\ UNCHANGED calls
    ELSE /\ calls' = Append(calls, IF cmd = "start" THEN StartRequest(ids)
                                   ELSE AddRequest(ids))
         /\ pc' = "awaitWrite"
         /\ exitCode' = exitCode

\* `entries create` declares --billable only: commander rejects --no-billable
\* as an unknown option and main exits with the CommanderError's code, 1.
UnknownOption == cmd = "create" /\ cmdOpts.billable = Some(FALSE)

CreateUnknownOption ==
    /\ pc = "start" /\ UnknownOption
    /\ Fail("GENERAL_ERROR")
    /\ UNCHANGED <<envVars, timeVars, dayVars, aggVars, procVars, argVars, since, until,
                   groupField, calls, clockReply, picked, remoteError, output>>

\* start / entries create up to the first await: the client is fetched, the ids
\* come from the flags or the config; when one is missing and prompting is
\* allowed, the picker starts with getCustomers; otherwise the ids are checked
\* and the request is sent.
WriteStart ==
    /\ pc = "start" /\ cmd \in {"start", "create"} /\ ~UnknownOption
    /\ getClient
    /\ IF getClientThrows
       THEN /\ Throw(CliError("CONFIG_ERROR"))
            /\ UNCHANGED <<calls, picked>>
       ELSE /\ picked' = Some([ids |-> ResolvedIds, customer |-> None, project |-> None])
            /\ IF IdsMissing(ResolvedIds)
                  /\ shouldPrompt(programOpts(globalFlags), Mode, stdio)
               THEN /\ calls' = Append(calls, [op |-> "getCustomers"])
                    /\ pc' = "awaitCustomers"
                    /\ exitCode' = exitCode
               ELSE Submit(ResolvedIds)
    /\ UNCHANGED <<envVars, timeVars, dayVars, aggVars, credVars, argVars, since, until,
                   groupField, clockReply, remoteError, output>>

\* The user cancels a select of the picker: selectCustomerProjectService
\* returns null and the handler returns without a word.
PickCancel ==
    /\ pc \in {"awaitCustomers", "awaitProjects", "awaitServices"}
    /\ pc' = "done"
    /\ exitCode' = Some("SUCCESS")
    /\ UNCHANGED <<envVars, timeVars, dayVars, aggVars, procVars, argVars, since, until,
                   groupField, calls, clockReply, picked, remoteError, output>>

\* What the picker offers.
OfferedCustomers == {11}
OfferedProjects == {0, 101}
OfferedServices == {1001}

\* prompts.ts lines 25-46: getCustomers answers, the user selects a customer,
\* getProjects is called for it.
PickCustomer ==
    /\ pc = "awaitCustomers"
    /\ \E c \in OfferedCustomers :
          /\ picked' = Some([Val(picked) EXCEPT !.customer = Some(c)])
          /\ calls' = Append(calls, [op |-> "getProjects", customersId |-> c])
    /\ pc' = "awaitProjects"
    /\ UNCHANGED <<envVars, timeVars, dayVars, aggVars, procVars, argVars, since, until,
                   groupField, exitCode, clockReply, remoteError, output>>

\* prompts.ts lines 48-67: getProjects answers, the user selects a project or
\* "(no project)", getServices is called.
PickProject ==
    /\ pc = "awaitProjects"
    /\ \E pj \in OfferedProjects :
          picked' = Some([Val(picked) EXCEPT !.project = Some(pj)])
    /\ calls' = Append(calls, [op |-> "getServices"])
    /\ pc' = "awaitServices"
    /\ UNCHANGED <<envVars, timeVars, dayVars, aggVars, procVars, argVars, since, until,
                   groupField, exitCode, clockReply, remoteError, output>>

\* prompts.ts lines 69-83 and the handler's lines after the picker: getServices
\* answers, the user selects a service; the selection fills the ids that are
\* still undefined (??=); then the ids are checked and the request is sent.
PickService ==
    /\ pc = "awaitServices"
    /\ \E sv \in OfferedServices :
          LET selection == [customersId |-> Val(picked).customer,
                            projectsId |-> IF Val(Val(picked).project) # 0
                                           THEN Val(picked).project ELSE None,
                            servicesId |-> Some(sv)]
              old == Val(picked).ids
              ids == [customersId |-> Nullish(old.customersId, selection.customersId),
                      servicesId |-> Nullish(old.servicesId, selection.servicesId),
                      projectsId |-> Nullish(old.projectsId, selection.projectsId)]
          IN /\ picked' = Some([Val(picked) EXCEPT !.ids = ids])
             /\ Submit(ids)
    /\ UNCHANGED <<envVars, timeVars, dayVars, aggVars, procVars, argVars, since, until,
                   groupField, clockReply, remoteError, output>>

\* startClock / addEntry answers: the result is printed.
WriteReply ==
    /\ pc = "awaitWrite"
    /\ output' = Some([kind |-> IF cmd = "start" THEN "started" ELSE "created"])
    /\ pc' = "done"
    /\ exitCode' = Some("SUCCESS")
    /\ UNCHANGED <<envVars, timeVars, dayVars, aggVars, procVars, argVars, since, until,
                   groupField, calls, clockReply, picked, remoteError>>

\* ---------------------------------------------------------------- delete

\* entries delete, customers delete, projects delete, services delete and
\* absences delete, and the remote operation of each.
DeleteCmds ==
    {"entries delete", "customers delete", "projects delete", "services delete",
     "absences delete"}

DeleteOp(c) ==
    CASE c = "entries delete" -> "deleteEntry"
      [] c = "customers delete" -> "deleteCustomer"
      [] c = "projects delete" -> "deleteProject"
      [] c = "services delete" -> "deleteService"
      [] c = "absences delete" -> "deleteAbsence"

\* The <id> arguments tried, and Number(input) of each: NaN for "abc".
IdInputs == {"5", "0", "-3", "1.5", "abc"}

Number(input) ==
    CASE input = "5" -> [isNaN |-> FALSE, isInteger |-> TRUE, floor |-> 5]
      [] input = "0" -> [isNaN |-> FALSE, isInteger |-> TRUE, floor |-> 0]
      [] input = "-3" -> [isNaN |-> FALSE, isInteger |-> TRUE, floor |-> -3]
      [] input = "1.5" -> [isNaN |-> FALSE, isInteger |-> FALSE, floor |-> 1]
      [] OTHER -> [isNaN |-> TRUE, isInteger |-> FALSE, floor |-> 0]

\* parseId(input) throws: !Number.isInteger(num) || num <= 0.
parseIdThrows(input) == ~Number(input).isInteger \/ Number(input).floor <= 0
\* parseId(input)
parseId(input) == Number(input).floor

\* The delete action from parseId on: an id that is no positive integer throws
\* INVALID_ARGS, any other is deleted remotely.
DeleteSubmit ==
    IF parseIdThrows(cmdOpts.id)
    THEN /\ Throw(CliError("INVALID_ARGS"))
         /\ UNCHANGED calls
    ELSE /\ calls' = Append(calls, [op |-> DeleteOp(cmd), id |-> parseId(cmdOpts.id)])
         /\ pc' = "awaitDelete"
         /\ exitCode' = exitCode

\* if (!cmdOpts.force && process.stdout.isTTY)
ConfirmNeeded == ~cmdOpts.force /\ stdio.isTTY

\* delete <id>: the client is fetched; without --force and on a terminal the
\* user is asked to confirm, otherwise the id is parsed and the delete sent.
DeleteStart ==
    /\ pc = "start" /\ cmd \in DeleteCmds
    /\ getClient
    /\ IF getClientThrows
       THEN /\ Throw(CliError("CONFIG_ERROR"))
            /\ UNCHANGED calls
       ELSE IF ConfirmNeeded
       THEN /\ pc' = "confirm"
            /\ UNCHANGED <<calls, exitCode>>
       ELSE DeleteSubmit
    /\ UNCHANGED <<envVars, timeVars, dayVars, aggVars, credVars, argVars, since, until,
                   groupField, clockReply, picked, remoteError, output>>

\* What p.confirm resolves to: true, false, or the cancel symbol.
ConfirmAnswers == {"yes", "no", "cancel"}

\* The user answers the confirmation: if (!confirm || p.isCancel(confirm)) return;
\* on yes the id is parsed and the delete sent.
DeleteConfirm ==
    /\ pc = "confirm"
    /\ \E answer \in ConfirmAnswers :
          /\ picked' = Some([confirm |-> answer])
          /\ IF answer # "yes"
             THEN /\ pc' = "done"
                  /\ exitCode' = Some("SUCCESS")
                  /\ UNCHANGED calls
             ELSE DeleteSubmit
    /\ UNCHANGED <<envVars, timeVars, dayVars, aggVars, procVars, argVars, since, until,
                   groupField, clockReply, remoteError, output>>

\* The remote delete answers: the result is printed.
DeleteReply ==
    /\ pc = "awaitDelete"
    /\ output' = Some([kind |-> "deleted", id |-> parseId(cmdOpts.id)])
    /\ pc' = "done"
    /\ exitCode' = Some("SUCCESS")
    /\ UNCHANGED <<envVars, timeVars, dayVars, aggVars, procVars, argVars, since, until,
                   groupField, calls, clockReply, picked, remoteError>>

\* The flags and config defaults start / entries create are invoked with.
WriteFlagInputs ==
    { NoFilter,
      [NoFilter EXCEPT !.customer = Some(10)],
      [customer |-> Some(10), project |-> Some(100), service |-> Some(1000),
       text |-> Some("API"), user |-> None],
      [customer |-> Some(10), project |-> None, service |-> Some(1000),
       text |-> None, user |-> None] }

DefaultInputs ==
    { NoDefaults, [customer |-> Some(12), service |-> Some(1002), project |-> Some(102)] }

\* The output modes of an invocation: --json on a pipe, no flag on a terminal.
ModeInputs ==
    { [flags |-> [NoFlags EXCEPT !.json = TRUE], io |-> [isTTY |-> FALSE, autoJson |-> None]],
      [flags |-> NoFlags, io |-> [isTTY |-> TRUE, autoJson |-> None]] }

\* The same, and on a terminal: --plain, and --no-input.
PromptModeInputs ==
    ModeInputs
    \cup { [flags |-> [NoFlags EXCEPT !.plain = TRUE],
            io |-> [isTTY |-> TRUE, autoJson |-> None]],
           [flags |-> [NoFlags EXCEPT !.noInput = TRUE],
            io |-> [isTTY |-> TRUE, autoJson |-> None]] }

\* --group as typed by the user.
GroupInputs ==
    {"project", "Customer", "services_id", "text", "Description", "invalid", "constructor"}

\* --since / --until as typed by the user.
CmdDateInputs ==
    {Keyword("today"), BareDate(13), BareDate(14), DateTime(13, 14 * 60 + 30),
     Unparseable, InvalidDate}

\* The filter flags as typed by the user: none, an empty --text, all five.  The
\* ids have passed parseIntStrict and are positive.
FilterInputs ==
    { NoFilter,
      [NoFilter EXCEPT !.text = Some("")],
      [customer |-> Some(10), project |-> Some(100), service |-> Some(1000),
       text |-> Some("API"), user |-> Some(7)] }

\* One command is invoked in a fresh process whose credentials are configured.
Init ==
    /\ zone \in Zones
    /\ clock \in ClockStarts
    /\ ticks = 0
    /\ IdleTime /\ IdleAgg /\ IdleDay
    /\ FreshProc /\ storedCreds = FileCreds /\ envCreds = NoCreds
    /\ pc = "start"
    /\ cmd \in ReportCmds \cup {"list", "stop", "status", "start", "create"} \cup DeleteCmds
    /\ groupArg \in IF cmd \in ReportCmds \cup {"list"}
                    THEN {None} \cup {Some(g) : g \in GroupInputs}
                    ELSE {None}
    /\ filterArgs \in CASE cmd = "list" -> {[f EXCEPT !.user = None] : f \in FilterInputs}
                        [] cmd \in ReportCmds -> FilterInputs
                        [] cmd \in {"start", "create"} -> WriteFlagInputs
                        [] OTHER -> {NoFilter}
    /\ CASE cmd = "custom" ->
              /\ sinceArg \in {Some(i) : i \in CmdDateInputs}
              /\ untilArg \in {Some(i) : i \in CmdDateInputs}
         [] cmd = "list" ->
              /\ sinceArg \in {Some(i) : i \in CmdDateInputs}
              /\ untilArg \in {None} \cup {Some(i) : i \in CmdDateInputs}
         [] cmd = "create" ->
              /\ sinceArg = Some(DateTime(13, 14 * 60 + 30))
              /\ untilArg = Some(BareDate(14))
         [] OTHER -> sinceArg = None /\ untilArg = None
    /\ since = None /\ until = None /\ groupField = None
    /\ calls = <<>> /\ exitCode = None /\ clockReply = None
    /\ picked = None /\ remoteError = None /\ output = None
    /\ CASE cmd = "status" ->
              /\ \E m \in ModeInputs : globalFlags = m.flags /\ stdio = m.io
              /\ cmdOpts \in {[NoCmdOpts EXCEPT !.prompt = b] : b \in BOOLEAN}
         [] cmd \in {"start", "create"} ->
              /\ \E m \in PromptModeInputs : globalFlags = m.flags /\ stdio = m.io
              /\ cmdOpts \in {[NoCmdOpts EXCEPT !.billable = b] :
                                  b \in {None, Some(TRUE), Some(FALSE)}}
         [] cmd \in DeleteCmds ->
              /\ \E m \in ModeInputs : globalFlags = m.flags /\ stdio = m.io
              /\ cmdOpts \in {[NoCmdOpts EXCEPT !.force = f, !.id = i] :
                                  f \in BOOLEAN, i \in IdInputs}
         [] OTHER ->
              /\ globalFlags = NoFlags /\ stdio = [isTTY |-> FALSE, autoJson |-> None]
              /\ cmdOpts = NoCmdOpts
    /\ defaults \in IF cmd \in {"start", "create"} THEN DefaultInputs ELSE {NoDefaults}
    /\ billableDefaults \in
          IF cmd = "create"
          THEN {[project |-> TRUE, customer |-> FALSE], [project |-> FALSE, customer |-> TRUE]}
          ELSE {[project |-> FALSE, customer |-> FALSE]}

Next ==
    \/ ReportToday \/ ReportWeek \/ ReportMonth
    \/ CustomSince \/ CustomUntil
    \/ ListSince \/ ListUntil
    \/ RemoteFails \/ GroupsReply \/ EntriesReply
    \/ TotalEntry \/ ListAfterTotal
    \/ AggEntry \/ AggReturn
    \/ StopGetClock \/ ClockReply \/ StopReply
    \/ StatusStart \/ StatusPromptReply \/ StatusClockReply \/ StatusEntriesReply
    \/ CreateUnknownOption \/ WriteStart \/ WriteReply
    \/ PickCustomer \/ PickProject \/ PickService \/ PickCancel
    \/ DeleteStart \/ DeleteConfirm \/ DeleteReply
    \/ Tick

Spec == Init /\ [][Next]_vars

\* ---------------------------------------------------------------- SpecAgg
\* One call of an aggregator on its own: groupEntries(entries, key) for each of
\* its keys, groupEntriesByText(entries).

AggKeys == {"customersId", "projectsId", "servicesId", "text"}

InitAgg ==
    /\ zone \in {z \in Zones : z.name = "UTC"}
    /\ clock \in ClockStarts
    /\ ticks = 0
    /\ tInput = None /\ tSince = None /\ tUntil = None
    /\ IdleCmd /\ IdleProc /\ IdleDay
    /\ pc = "agg"
    /\ entryList \in SeqsUpTo(EntryPool, MaxEntries)
    /\ \/ aggPath = "entries" /\ aggKey \in AggKeys /\ now = None
       \/ aggPath = "report" /\ aggKey = "text" /\ now = Some(clock)
    /\ idx = 1 /\ map = <<>> /\ readAt = <<>> /\ totalSeconds = 0 /\ groups = None

NextAgg == AggEntry \/ AggReturn \/ Tick

SpecAgg == InitAgg /\ [][NextAgg]_vars

\* ---------------------------------------------------------------- SpecDay
\* computeDayStats of worktimes.ts applied to one work-time day.  The seconds of
\* the result are kept in thousandths, so that (end - start) / 1000 loses nothing
\* when Date.now() is not on a full second.

\* An interval of a work-time day: timeUntil is null while it is open.
Interval(s, u) == [timeSince |-> s, timeUntil |-> u]

\* prevEnd = start
NextPrevEndStart(start, end) == start
\* line 44: prevEnd = end
NextPrevEnd(start, end) == end

\* The loop of lines 36-45 from interval i on; prevEnd is nullable.
RECURSIVE DayLoop(_, _, _, _, _, _)
DayLoop(ivs, i, clk, total, brk, prevEnd) ==
    IF i > Len(ivs) THEN [totalSeconds |-> total, breakSeconds |-> brk]
    ELSE LET start == ivs[i].timeSince
             end == IF IsNull(ivs[i].timeUntil) THEN clk ELSE Val(ivs[i].timeUntil)
         IN DayLoop(ivs, i + 1, clk, total + (end - start),
                    IF IsNull(prevEnd) THEN brk ELSE brk + (start - Val(prevEnd)),
                    Some(NextPrevEnd(start, end)))

\* computeDayStats(day), with Date.now() = clk.
computeDayStats(ivs, clk) ==
    IF Len(ivs) = 0
    THEN [startTime |-> None, endTime |-> None, totalSeconds |-> 0, breakSeconds |-> 0,
          intervalCount |-> 0]
    ELSE LET sums == DayLoop(ivs, 1, clk, 0, 0, None) IN
         [startTime |-> Some(ivs[1].timeSince), endTime |-> ivs[Len(ivs)].timeUntil,
          totalSeconds |-> sums.totalSeconds, breakSeconds |-> sums.breakSeconds,
          intervalCount |-> Len(ivs)]

\* Saturday 2026-03-28, 08:00, 10:00, 12:00, 13:00, 15:00 and 17:00 UTC.
DayInstants == {12 * MsPerDay + h * MsPerHour : h \in {8, 10, 12, 13, 15, 17}}

\* The intervals a day is made of: closed ones, and ones still open.
IntervalPool ==
    {Interval(p[1], Some(p[2])) : p \in {q \in DayInstants \X DayInstants : q[1] < q[2]}}
    \cup {Interval(a, None) : a \in {c \in DayInstants : c >= 12 * MsPerDay + 13 * MsPerHour}}

InitDay ==
    /\ zone \in {z \in Zones : z.name = "UTC"}
    /\ clock \in ClockStarts
    /\ ticks = 0
    /\ IdleTime /\ IdleAgg /\ IdleProc /\ IdleCmd
    /\ pc = "day"
    /\ intervals \in SeqsUpTo(IntervalPool, MaxIntervals)
    /\ stats = None

\* const stats = computeDayStats(day)
ApplyComputeDayStats ==
    /\ pc = "day" /\ stats = None
    /\ stats' = Some(computeDayStats(intervals, clock))
    /\ UNCHANGED <<envVars, timeVars, cmdVars, aggVars, procVars, pc, intervals>>

NextDay == ApplyComputeDayStats \/ Tick

SpecDay == InitDay /\ [][NextDay]_vars

\* ---------------------------------------------------------------- SpecHttp
\* handleError applied to one error of the SDK: a response with any status, or
\* with none.

InitHttp ==
    /\ zone \in {z \in Zones : z.name = "UTC"}
    /\ clock \in {c \in ClockStarts : c % MsPerHour = 0}
    /\ ticks = 0
    /\ IdleTime /\ IdleAgg /\ IdleProc /\ IdleDay /\ IdleArgs
    /\ since = None /\ until = None /\ groupField = None /\ calls = <<>>
    /\ exitCode = None /\ clockReply = None /\ picked = None /\ output = None
    /\ pc = "caught"
    /\ remoteError \in {Some(ApiError(Some(st))) : st \in 0 .. MaxStatus}
                         \cup {Some(ApiError(None))}

\* main's catch: handleError(error, opts) exits with the code of the error.
ApplyHandleError ==
    /\ pc = "caught"
    /\ Throw(Val(remoteError))
    /\ UNCHANGED <<envVars, timeVars, dayVars, aggVars, procVars, argVars, since, until,
                   groupField, calls, clockReply, picked, remoteError, output>>

NextHttp == ApplyHandleError

SpecHttp == InitHttp /\ [][NextHttp]_vars

\* ---------------------------------------------------------------- SpecProc
\* One process calling the exported functions of client.ts and config.ts in any
\* order, with any credentials in the config file and in the environment.

StoredCredInputs ==
    [email : {None, Some(""), FileCreds.email}, apiKey : {None, FileCreds.apiKey}]

EnvCredInputs == [email : {None, EnvCreds.email}, apiKey : {None, EnvCreds.apiKey}]

InitProc ==
    /\ zone \in {z \in Zones : z.name = "UTC"}
    /\ clock \in ClockStarts
    /\ ticks = 0
    /\ IdleTime /\ IdleCmd /\ IdleAgg /\ IdleDay
    /\ pc = "lib"
    /\ FreshProc
    /\ storedCreds \in StoredCredInputs
    /\ envCreds \in EnvCredInputs

\* A library call is made and logged.
LibCall(name) ==
    /\ pc = "lib" /\ Len(libCalls) < MaxLibCalls
    /\ libCalls' = Append(libCalls, name)
    /\ UNCHANGED <<envVars, timeVars, dayVars, cmdVars, aggVars, pc>>

\* getClient()
CallGetClient ==
    /\ LibCall("getClient")
    /\ getClient
    /\ UNCHANGED <<storedCreds, envCreds, resets>>

\* requireAuth()
CallRequireAuth ==
    /\ LibCall("requireAuth")
    /\ getStore
    /\ auth' = Some(requireAuth(storedCreds, envCreds))
    /\ UNCHANGED <<storedCreds, envCreds, resets, clientInstance, clientsMade, clientHandles>>

\* getConfig(), getConfigValue(key), getConfigPath(): a read through getStore().
CallGetConfig ==
    /\ \E name \in {"getConfig", "getConfigValue", "getConfigPath"} : LibCall(name)
    /\ getStore
    /\ UNCHANGED <<storedCreds, envCreds, resets, clientInstance, clientsMade, clientHandles,
                   auth>>

\* setConfigValue(key, value): a write through getStore().
CallSetConfigValue ==
    /\ LibCall("setConfigValue")
    /\ getStore
    /\ \/ storedCreds' = [storedCreds EXCEPT !.email = Some("new@example.com")]
       \/ storedCreds' = [storedCreds EXCEPT !.apiKey = Some("new-key")]
    /\ UNCHANGED <<envCreds, resets, clientInstance, clientsMade, clientHandles, auth>>

\* resetClient(): clientInstance = null.
CallResetClient ==
    /\ LibCall("resetClient")
    /\ clientInstance' = None
    /\ resets' = [resets EXCEPT !.client = @ + 1]
    /\ UNCHANGED <<storedCreds, envCreds, configInstance, clientsMade, storesMade,
                   clientHandles, storeHandles, auth>>

\* resetConfig(): configInstance = null.
CallResetConfig ==
    /\ LibCall("resetConfig")
    /\ configInstance' = None
    /\ resets' = [resets EXCEPT !.config = @ + 1]
    /\ UNCHANGED <<storedCreds, envCreds, clientInstance, clientsMade, storesMade,
                   clientHandles, storeHandles, auth>>

NextProc ==
    \/ CallGetClient \/ CallRequireAuth \/ CallGetConfig \/ CallSetConfigValue
    \/ CallResetClient \/ CallResetConfig

SpecProc == InitProc /\ [][NextProc]_vars

\* ---------------------------------------------------------------- handle claims

\* How often the library function `name` has been called.
LibCallCount(name) == Cardinality({i \in 1 .. Len(libCalls) : libCalls[i] = name})

\* C17: the API client is created at most once per process: after any sequence
\* of getClient calls (resetClient not being called), at most one Clockodo client
\* has been constructed and every call returned that same instance; likewise the
\* config store behind getConfig / getConfigValue / setConfigValue (resetConfig
\* not being called).
C17_Singletons ==
    /\ resets.client = 0 =>
          /\ clientsMade <= 1
          /\ Cardinality(clientHandles) <= 1
          /\ clientHandles # {} => (clientInstance # <<>> /\ clientHandles = {clientInstance[1].id})
    /\ resets.config = 0 =>
          /\ storesMade <= 1
          /\ Cardinality(storeHandles) <= 1
          /\ storeHandles # {} => (configInstance # <<>> /\ storeHandles = {configInstance[1]})

\* C17's case: getClient has been called twice and the store has been read and
\* written, without a reset: one client and one store exist.
C17_Witness ==
    /\ resets = [client |-> 0, config |-> 0]
    /\ LibCallCount("getClient") = 2
    /\ LibCallCount("getConfigValue") = 1 /\ LibCallCount("setConfigValue") = 1
    /\ clientsMade = 1 /\ storesMade = 1
    /\ Cardinality(clientHandles) = 1

\* C18: when credentials are present both in the stored config file and in the
\* environment variables CLOCKODO_EMAIL / CLOCKODO_API_KEY, requireAuth returns
\* the environment values.
C18_EnvPrecedence ==
    (/\ auth # <<>>
     /\ \A c \in {auth[1].stored.email, auth[1].stored.apiKey,
                   auth[1].env.email, auth[1].env.apiKey} : c # <<>> /\ c # <<"">>) =>
        /\ ~auth[1].threw
        /\ auth[1].email = auth[1].env.email
        /\ auth[1].apiKey = auth[1].env.apiKey

\* ---------------------------------------------------------------- aggregator claims

RECURSIVE SumCounts(_)
SumCounts(gs) == IF gs = <<>> THEN 0 ELSE Head(gs).count + SumCounts(Tail(gs))

\* The aggregator has returned its groups.
AggDone == aggPath # "none" /\ groups # None

\* The Duration Calculator of the specification: the stored duration of a closed
\* entry, n - start in whole seconds for a running one.
ExpectedDuration(e, n) ==
    IF e.timeUntil = None THEN (n - e.timeSince) \div 1000 ELSE e.duration[1]

RECURSIVE SumExpected(_, _, _)
SumExpected(es, rs, i) ==
    IF i > Len(es) THEN 0
    ELSE ExpectedDuration(es[i], rs[i].at) + SumExpected(es, rs, i + 1)

\* C1: the sum of seconds over the returned groups equals the sum over all input
\* entries of the per-entry duration (the stored duration of a closed entry, the
\* clock reading at the entry's turn less its start for a running one): no entry
\* is dropped and none is counted twice.
C1_SecondsConserved ==
    AggDone =>
        /\ Len(readAt) = Len(entryList)
        /\ SumSeconds(Val(groups)) = SumExpected(entryList, readAt, 1)

\* C1's case: three entries, one of them running, two of them in one group, and
\* the clock has advanced during the call.
C1_Witness ==
    /\ AggDone /\ Len(entryList) = 3 /\ Len(Val(groups)) = 2
    /\ \E i \in 1 .. 3 : IsRunning(entryList[i])
    /\ \E i \in 1 .. 3 : ~IsRunning(entryList[i])
    /\ ticks > 0
    /\ SumSeconds(Val(groups)) > 0

\* C2: the sum of count over the returned groups equals the number of input
\* entries, and every group has count >= 1.
C2_CountsConserved ==
    AggDone =>
        /\ SumCounts(Val(groups)) = Len(entryList)
        /\ \A i \in 1 .. Len(Val(groups)) : Val(groups)[i].count >= 1

\* C2's case: three entries in two groups, one group holding two of them.
C2_Witness ==
    /\ AggDone /\ Len(entryList) = 3 /\ Len(Val(groups)) = 2
    /\ \E i \in 1 .. 2 : Val(groups)[i].count = 2

\* C3: the returned groups are sorted by descending seconds, whatever the order
\* of the input.
C3_SortedDescending ==
    AggDone =>
        \A i \in 1 .. Len(Val(groups)) - 1 :
            Val(groups)[i].seconds >= Val(groups)[i + 1].seconds

\* C3's case: three groups of three different sums, met in ascending order in
\* the input.
C3_Witness ==
    /\ AggDone /\ Len(Val(groups)) = 3 /\ Len(map) = 3
    /\ map[1].seconds < map[2].seconds /\ map[2].seconds < map[3].seconds
    /\ Val(groups)[1].seconds > Val(groups)[3].seconds

\* The text key the specification gives an entry.
ExpectedTextKey(e) ==
    IF e.text = None \/ e.text = <<"">> THEN "(no description)" ELSE e.text[1]

\* C4: grouping by text, every entry whose description is null or empty gets the
\* key "(no description)" and all of them are in one single group; entries with
\* distinct non-empty descriptions never share a group (each group holds exactly
\* the entries of its key, and no key has two groups).
C4_TextSentinel ==
    (AggDone /\ aggKey = "text") =>
        LET gs == Val(groups) IN
        /\ \A i, j \in 1 .. Len(gs) : gs[i].key = gs[j].key => i = j
        /\ \A n \in 1 .. Len(entryList) :
              \E i \in 1 .. Len(gs) : gs[i].key = ExpectedTextKey(entryList[n])
        /\ \A i \in 1 .. Len(gs) :
              gs[i].count =
                  Cardinality({n \in 1 .. Len(entryList) :
                                  ExpectedTextKey(entryList[n]) = gs[i].key})

\* C4's case: an entry without description, one with the empty description and
\* one with a description, grouped by text into two groups.
C4_Witness ==
    /\ AggDone /\ aggKey = "text" /\ Len(entryList) = 3
    /\ \E i \in 1 .. 3 : entryList[i].text = None
    /\ \E i \in 1 .. 3 : entryList[i].text = <<"">>
    /\ \E i \in 1 .. 3 : entryList[i].text = <<"A">>
    /\ \E i \in 1 .. 2 : Val(groups)[i].key = "(no description)" /\ Val(groups)[i].count = 2

\* C5: within one aggregation call one shared `now` is used for every entry:
\* there is an instant n such that every running entry contributed exactly the
\* whole seconds from its start to n, also when the clock advances during the call.
C5_SharedNow ==
    AggDone =>
        \A i, j \in 1 .. Len(entryList) :
            (IsRunning(entryList[i]) /\ IsRunning(entryList[j])) =>
                entryList[i].timeSince + readAt[i].seconds * 1000
                    <= entryList[j].timeSince + readAt[j].seconds * 1000 + 999

\* The time ranges the specification gives the group of key k: one per entry of
\* that text key from position i on, in input order, with the entry's start and
\* its end, or n for a running entry.
RECURSIVE ExpectedRanges(_, _, _, _)
ExpectedRanges(es, k, n, i) ==
    IF i > Len(es) THEN <<>>
    ELSE IF ExpectedTextKey(es[i]) = k
         THEN <<[since |-> es[i].timeSince,
                 until |-> IF es[i].timeUntil = <<>> THEN n ELSE es[i].timeUntil[1]]>>
              \o ExpectedRanges(es, k, n, i + 1)
         ELSE ExpectedRanges(es, k, n, i + 1)

\* C20: in text-mode grouping (groupEntriesByText), each group's timeRanges has
\* exactly one {since, until} element per contributing entry, in the order the
\* entries were met in the input; since is the entry's start, until its end, or
\* the aggregation's `now` when the entry is still running.
C20_TimeRanges ==
    (AggDone /\ aggPath = "report") =>
        \A i \in 1 .. Len(groups[1]) :
            /\ Len(groups[1][i].timeRanges) = groups[1][i].count
            /\ groups[1][i].timeRanges = ExpectedRanges(entryList, groups[1][i].key, now[1], 1)

\* C20's case: a group of two entries, a closed one met first and a running one
\* after it, while the clock advanced during the call.
C20_Witness ==
    /\ AggDone /\ aggPath = "report" /\ ticks > 0 /\ Len(entryList) = 3
    /\ \E i \in 1 .. Len(groups[1]) :
          /\ Len(groups[1][i].timeRanges) = 2
          /\ groups[1][i].timeRanges[1].until = EntryStartClosed + 3600 * 1000
          /\ groups[1][i].timeRanges[2].since = EntryStartRunning
          /\ groups[1][i].timeRanges[2].until = now[1]
          /\ now[1] < clock

\* ---------------------------------------------------------------- SpecTime
\* The two parsers applied to one date string.

InitTime ==
    /\ zone \in Zones
    /\ clock \in ClockStarts
    /\ ticks = 0
    /\ tInput \in {Some(i) : i \in DateInputs}
    /\ tSince = None /\ tUntil = None
    /\ pc = "time"
    /\ IdleCmd /\ IdleAgg /\ IdleProc /\ IdleDay

ApplyParseDateTime ==
    /\ pc = "time" /\ tSince = None
    /\ tSince' = Some(parseDateTime(zone, clock, Val(tInput)))
    /\ UNCHANGED <<envVars, dayVars, tInput, tUntil, cmdVars, aggVars, procVars, pc>>

ApplyParseDateTimeUntil ==
    /\ pc = "time" /\ tUntil = None
    /\ tUntil' = Some(parseDateTimeUntil(zone, clock, Val(tInput)))
    /\ UNCHANGED <<envVars, dayVars, tInput, tSince, cmdVars, aggVars, procVars, pc>>

NextTime == ApplyParseDateTime \/ ApplyParseDateTimeUntil \/ Tick

SpecTime == InitTime /\ [][NextTime]_vars

\* Both parsers have been applied to the bare date tInput.
BareDateResolved ==
    /\ pc = "time" /\ tInput # None /\ tSince # None /\ tUntil # None
    /\ Val(tInput).kind = "date"

\* The local UTC offset changes during the local day d.
OffsetChangesOn(z, d) ==
    OffsetAtUtc(z, LocalToUtc(z, d * MsPerDay))
        # OffsetAtUtc(z, LocalToUtc(z, d * MsPerDay + MsPerDay - 1))

ExplicitTimeResolved ==
    /\ pc = "time" /\ tInput # None /\ tSince # None /\ tUntil # None
    /\ Val(tInput).kind \in {"datetime", "time"}

\* C11: for every date D and explicit time T, resolving "D T" as an `until` bound
\* gives exactly the instant that resolving it as a `since` bound gives, the
\* literal local instant D T with no end-of-day shift; a bare time "HH:mm"
\* resolved as `until` is what resolving it as `since` gives at the same clock
\* reading (the time on the clock's local day).
C11_UntilWithTimeUnshifted ==
    [][((tInput # None /\ tUntil = None /\ tUntil' # None) =>
           /\ tInput[1].kind \in {"datetime", "time"} =>
                 tUntil'[1] = parseDateTime(zone, clock, tInput[1])
           /\ tInput[1].kind = "datetime" =>
                 /\ tUntil'[1] = (LocalToUtc(zone, tInput[1].day * MsPerDay
                                                   + tInput[1].min * MsPerMin)) \div 1000
                 /\ tSince # None => tUntil'[1] = tSince[1])
       /\ ((tInput # None /\ tSince = None /\ tSince' # None /\ tUntil # None
            /\ tInput[1].kind = "datetime") => tSince'[1] = tUntil[1])]_vars

\* C11's case: "2026-03-29 14:30" in Europe/Berlin, the day the clocks go
\* forward, resolved both ways to 12:30:00 UTC.
C11_Witness ==
    /\ ExplicitTimeResolved
    /\ zone.name = "Europe/Berlin"
    /\ tInput = <<DateTime(13, 14 * 60 + 30)>>
    /\ tUntil = tSince
    /\ tUntil[1] = (13 * MsPerDay + 12 * MsPerHour + 30 * MsPerMin) \div 1000

\* ---------------------------------------------------------------- command claims

\* How many calls of the remote operation op have been issued.
CallCount(op) == Cardinality({i \in 1 .. Len(calls) : calls[i].op = op})

Ended == pc = "done"

\* C6: for every report subcommand, when the canonical grouping key is `text`
\* exactly one getEntries call is made and getEntryGroups is never called; when
\* it is a structured field, exactly one getEntryGroups call is made and
\* getEntries is never called.
C6_OneCallByKey ==
    (cmd \in ReportCmds /\ groupField # None) =>
        /\ groupField = <<"text">> =>
              CallCount("getEntries") = 1 /\ CallCount("getEntryGroups") = 0
        /\ groupField[1] \in {"customers_id", "projects_id", "services_id"} =>
              CallCount("getEntryGroups") = 1 /\ CallCount("getEntries") = 0

\* C6's case: a custom report grouped by text has ended after its getEntries
\* answered with an entry.
C6_Witness ==
    /\ Ended /\ cmd = "custom" /\ groupField = <<"text">>
    /\ exitCode = <<"SUCCESS">> /\ Len(entryList) = 1
    /\ CallCount("getEntries") = 1

\* C7: a custom report whose resolved since is not strictly before its resolved
\* until fails with INVALID_ARGS, and no remote call is made in that invocation.
C7_CustomRangeRejected ==
    (cmd = "custom" /\ since # None /\ until # None /\ since[1] >= until[1]) =>
        /\ Ended
        /\ exitCode = <<"INVALID_ARGS">>
        /\ calls = <<>>

\* C7's case: --since 2026-03-30 --until 2026-03-29 has been rejected.
C7_Witness ==
    /\ Ended /\ cmd = "custom"
    /\ sinceArg = <<BareDate(14)>> /\ untilArg = <<BareDate(13)>>
    /\ since # None /\ until # None /\ since[1] > until[1]
    /\ exitCode = <<"INVALID_ARGS">>

\* The aliases --group accepts, in any letter case.
KnownAliases ==
    {"customer", "customers", "customers_id", "project", "projects", "projects_id",
     "service", "services", "services_id", "text", "description"}

UnknownGroup == groupArg # None /\ toLowerCase(groupArg[1]) \notin KnownAliases

\* C8: for every command that accepts --group, an unrecognized alias is reported
\* as INVALID_ARGS before any remote call is made: no getEntries or
\* getEntryGroups call precedes the error.
C8_UnknownGroupBeforeCall ==
    UnknownGroup =>
        /\ calls = <<>>
        /\ Ended => exitCode = <<"INVALID_ARGS">>

\* C10: for `report custom` and `entries list`, --since D --until D with the same
\* bare date D (here: a day without a change of the UTC offset) does not fail
\* validation, and the remote call is issued with timeUntil - timeSince = 86399.
C10_SameDayWholeDay ==
    (/\ Ended /\ cmd \in {"custom", "list"}
     /\ sinceArg # None /\ sinceArg[1].kind = "date" /\ untilArg = sinceArg
     /\ ~OffsetChangesOn(zone, sinceArg[1].day)) =>
        /\ exitCode # <<"INVALID_ARGS">>
        /\ Len(calls) = 1
        /\ calls[1].timeUntil - calls[1].timeSince = 86399

\* --since or --until is a string that matches none of the recognized forms and
\* that new Date() cannot parse.
UnparseableGiven ==
    \/ sinceArg # None /\ sinceArg[1].kind = "unparseable"
    \/ untilArg # None /\ untilArg[1].kind = "unparseable"

\* C12: a date/time string that matches none of the recognized forms and cannot
\* be parsed ends the command with INVALID_ARGS, and no remote call is attempted
\* in that invocation.
C12_UnparseableInvalidArgs ==
    (cmd \in {"custom", "list"} /\ UnparseableGiven) =>
        /\ calls = <<>>
        /\ Ended => exitCode = <<"INVALID_ARGS">>

\* C13: every remote call that carries a date range (getEntries,
\* getEntryGroups) is issued with timeSince strictly before timeUntil.
C13_CallRangeOrdered ==
    \A i \in 1 .. Len(calls) :
        calls[i].op \in {"getEntries", "getEntryGroups"} =>
            calls[i].timeSince < calls[i].timeUntil

\* The options the filter flags set.
FilterFlags == {"customer", "project", "service", "text", "user"}

\* C14: when no filter flag is given, the remote call of a report command
\* carries no `filter` property at all (<<>>, not an object without keys), on the
\* getEntryGroups path and on the getEntries path.
C14_NoFilterProperty ==
    (cmd \in ReportCmds /\ \A k \in FilterFlags : filterArgs[k] = <<>>) =>
        \A i \in 1 .. Len(calls) : calls[i].filter = <<>>

\* C14's case: a report grouped by text without filter flags has made its
\* getEntries call.
C14_Witness ==
    /\ cmd = "week" /\ filterArgs = NoFilter /\ groupField = <<"text">>
    /\ Len(calls) = 1 /\ calls[1].op = "getEntries" /\ calls[1].filter = <<>>
    /\ Ended /\ exitCode = <<"SUCCESS">>

\* C15: every filter criterion the user supplies is passed unmodified to the
\* remote call the report makes, whichever it is: the `filter` object holds
\* exactly the supplied criteria (customersId, projectsId, servicesId, text,
\* usersId) and nothing else; and the entries returned are not filtered by the
\* client: the groups of a text report account for every one of them.
C15_FilterPassThrough ==
    cmd \in ReportCmds =>
        /\ \A i \in 1 .. Len(calls) :
              (\E k \in FilterFlags : filterArgs[k] # <<>>) =>
                  /\ calls[i].filter # <<>>
                  /\ calls[i].filter[1].customersId = filterArgs.customer
                  /\ calls[i].filter[1].projectsId = filterArgs.project
                  /\ calls[i].filter[1].servicesId = filterArgs.service
                  /\ calls[i].filter[1].text = filterArgs.text
                  /\ calls[i].filter[1].usersId = filterArgs.user
        /\ (Ended /\ exitCode = <<"SUCCESS">> /\ groupField = <<"text">>) =>
              SumCounts(groups[1]) = Len(entryList)

\* C15's case: a custom report grouped by text with the one flag --text "" has
\* passed the empty text on and grouped the entry that came back.
C15_Witness ==
    /\ cmd = "custom" /\ groupField = <<"text">>
    /\ filterArgs.text = <<"">> /\ filterArgs.customer = <<>>
    /\ Len(calls) = 1 /\ calls[1].op = "getEntries"
    /\ calls[1].filter # <<>> /\ calls[1].filter[1].text = <<"">>
    /\ Ended /\ exitCode = <<"SUCCESS">> /\ Len(entryList) = 1

\* The canonical key of a known alias: the report's, the entries list's.
CanonicalKeys(k) ==
    CASE k \in {"customer", "customers", "customers_id"} -> {"customers_id", "customersId"}
      [] k \in {"project", "projects", "projects_id"} -> {"projects_id", "projectsId"}
      [] k \in {"service", "services", "services_id"} -> {"services_id", "servicesId"}
      [] k \in {"text", "description"} -> {"text"}

\* C16: the group-by alias mapping is total and fails closed: a known alias
\* resolves to its canonical key, any other input never yields a key (it raises
\* INVALID_ARGS).
C16_AliasFailsClosed ==
    (groupArg # None /\ groupField # None) =>
        /\ toLowerCase(groupArg[1]) \in KnownAliases
        /\ groupField[1] \in CanonicalKeys(toLowerCase(groupArg[1]))

\* C19: `stop` first reads the clock state; when no clock is running it fails
\* with EMPTY_RESULTS and stopClock is never called; when a clock is running,
\* stopClock is called exactly once, after getClock, with the id of the running
\* entry.
C19_StopAfterGetClock ==
    cmd = "stop" =>
        /\ calls # <<>> => calls[1].op = "getClock"
        /\ CallCount("getClock") <= 1
        /\ clockReply = <<>> => CallCount("stopClock") = 0
        /\ (clockReply # <<>> /\ clockReply[1].running = <<>>) =>
              /\ CallCount("stopClock") = 0
              /\ Ended /\ exitCode = <<"EMPTY_RESULTS">>
        /\ (clockReply # <<>> /\ clockReply[1].running # <<>>) =>
              /\ CallCount("stopClock") = 1
              /\ Len(calls) = 2 /\ calls[2].op = "stopClock"
              /\ calls[2].entriesId = clockReply[1].running[1].id

\* C19's case: a clock was running on entry 43 and has been stopped.
C19_Witness ==
    /\ cmd = "stop" /\ Ended /\ exitCode = <<"SUCCESS">>
    /\ clockReply # <<>> /\ clockReply[1].running # <<>>
    /\ clockReply[1].running[1].id = 43
    /\ calls = <<[op |-> "getClock"], [op |-> "stopClock", entriesId |-> 43]>>

\* ---------------------------------------------------------------- output order and totals

\* The groups the specification derives from the input list and one instant n:
\* every entry goes to the group of its key with its duration at n, a new key
\* behind the others; the groups are then ordered by descending seconds, equal
\* seconds in first-occurrence order.
RECURSIVE ExpectedMap(_, _, _, _, _)
ExpectedMap(es, key, n, i, m) ==
    IF i > Len(es) THEN m
    ELSE LET k == IF key = "text" THEN ExpectedTextKey(es[i])
                  ELSE GroupValue(es[i], key)
             j == IF \E x \in 1 .. Len(m) : m[x].key = k
                  THEN CHOOSE x \in 1 .. Len(m) : m[x].key = k ELSE 0
             d == ExpectedDuration(es[i], n)
         IN ExpectedMap(es, key, n, i + 1,
                IF j > 0 THEN [m EXCEPT ![j].seconds = @ + d]
                ELSE m \o <<[key |-> k, seconds |-> d]>>)

\* The positions of m ordered by descending seconds, ties by position.
ExpectedOrder(m) ==
    CHOOSE o \in [1 .. Len(m) -> 1 .. Len(m)] :
        /\ \A a, b \in 1 .. Len(m) : a # b => o[a] # o[b]
        /\ \A a, b \in 1 .. Len(m) :
              a < b => \/ m[o[a]].seconds > m[o[b]].seconds
                       \/ m[o[a]].seconds = m[o[b]].seconds /\ o[a] < o[b]

\* The first position of es whose group key is k.
FirstOccurrence(es, key, k) ==
    CHOOSE i \in 1 .. Len(es) :
        /\ GroupValue(es[i], key) = k
        /\ \A j \in 1 .. i - 1 : GroupValue(es[j], key) # k

\* The instant the aggregation call started at: the captured `now` of
\* groupEntriesByText, the clock at the first entry's turn for groupEntries.
AggStartedAt == IF now # <<>> THEN now[1] ELSE readAt[1].at

\* C27: groups with equal seconds come in first-occurrence order of their keys,
\* and the order of the returned groups is the one the input list and `now`
\* determine: the keys of the groups computed from the list with every running
\* entry measured at `now`, in descending seconds, ties in first-occurrence order.
C27_OrderDetermined ==
    (AggDone /\ entryList # <<>>) =>
        /\ \A a, b \in 1 .. Len(groups[1]) :
              (a < b /\ groups[1][a].seconds = groups[1][b].seconds) =>
                  FirstOccurrence(entryList, aggKey, groups[1][a].key)
                      < FirstOccurrence(entryList, aggKey, groups[1][b].key)
        /\ LET m == ExpectedMap(entryList, aggKey, AggStartedAt, 1, <<>>)
               o == ExpectedOrder(m)
           IN /\ Len(groups[1]) = Len(m)
              /\ \A a \in 1 .. Len(m) : groups[1][a].key = m[o[a]].key

\* C28: the grouped output of `entries list --group` carries a total that is the
\* sum of the seconds of its groups.
C28_TotalIsGroupSum ==
    (cmd = "list" /\ output # <<>> /\ output[1].kind = "groups") =>
        output[1].total = SumSeconds(output[1].groups)

\* ---------------------------------------------------------------- exit codes

\* The status of the response handleError was given, 0 when it has none.
StatusGiven == IF remoteError[1].status = <<>> THEN 0 ELSE remoteError[1].status[1]

\* C22: every HTTP status maps to exactly one exit code: 401 to 4, 403 to 6,
\* 404 to 5, 429 to 7, every status from 500 on to 8 and every other status to
\* 1; the exit code is never 0.
C22_StatusToExitCode ==
    (pc = "done" /\ remoteError # <<>> /\ remoteError[1].type = "ApiError") =>
        /\ exitCode # <<>>
        /\ ExitCode[exitCode[1]] =
              CASE StatusGiven = 401 -> 4
                [] StatusGiven = 403 -> 6
                [] StatusGiven = 404 -> 5
                [] StatusGiven = 429 -> 7
                [] StatusGiven \notin {401, 403, 404, 429} /\ StatusGiven >= 500 -> 8
                [] OTHER -> 1
        /\ ExitCode[exitCode[1]] # 0

\* C22's case: a response with status 500 has been mapped, to SERVER_ERROR.
C22_Witness ==
    /\ pc = "done" /\ remoteError # <<>> /\ remoteError[1].type = "ApiError"
    /\ remoteError[1].status = <<500>>
    /\ exitCode = <<"SERVER_ERROR">>

\* ---------------------------------------------------------------- work-time days

\* Every interval of the day is closed, none ends before it starts and none
\* starts before the one before it has ended.
ClosedChronological ==
    /\ \A i \in 1 .. Len(intervals) :
          /\ intervals[i].timeUntil # <<>>
          /\ intervals[i].timeSince <= intervals[i].timeUntil[1]
    /\ \A i \in 2 .. Len(intervals) :
          intervals[i - 1].timeUntil[1] <= intervals[i].timeSince

\* until - since of interval i, and the gap in front of it, in milliseconds.
Worked(i) == intervals[i].timeUntil[1] - intervals[i].timeSince
Gap(i) == intervals[i].timeSince - intervals[i - 1].timeUntil[1]

RECURSIVE SumOver(_, _)
SumOver(f, S) ==
    IF S = {} THEN 0 ELSE LET x == CHOOSE y \in S : TRUE IN f[x] + SumOver(f, S \ {x})

\* C26: for a day whose intervals are closed and chronological, totalSeconds is
\* the sum of until - since, breakSeconds the sum of the gaps between an
\* interval's start and the end of the one before it, intervalCount the number
\* of intervals; a day without intervals has 0, 0, 0 and no start and no end.
C26_DayStats ==
    (stats # <<>> /\ ClosedChronological) =>
        LET n == Len(intervals) IN
        /\ stats[1].totalSeconds = SumOver([i \in 1 .. n |-> Worked(i)], 1 .. n)
        /\ stats[1].breakSeconds = SumOver([i \in 2 .. n |-> Gap(i)], 2 .. n)
        /\ stats[1].intervalCount = n
        /\ n = 0 => /\ stats[1].totalSeconds = 0 /\ stats[1].breakSeconds = 0
                    /\ stats[1].startTime = <<>> /\ stats[1].endTime = <<>>

\* C26's case: three closed intervals with a break in front of the second and
\* of the third.
C26_Witness ==
    /\ stats # <<>> /\ ClosedChronological /\ Len(intervals) = 3
    /\ Gap(2) > 0 /\ Gap(3) > 0
    /\ stats[1].breakSeconds = Gap(2) + Gap(3)

\* ---------------------------------------------------------------- status claims

\* The range [s, u] (whole seconds) is the local day of instant n, from 00:00:00
\* to 23:59:59.
IsDayOf(s, u, n) ==
    /\ s * 1000 <= n /\ n <= u * 1000 + 999
    /\ LocalDay(zone, s * 1000) = LocalDay(zone, n)
    /\ LocalDay(zone, u * 1000) = LocalDay(zone, n)
    /\ UtcToLocal(zone, s * 1000) % MsPerDay = 0
    /\ UtcToLocal(zone, u * 1000) % MsPerDay = MsPerDay - 1000

\* C23: `status --prompt` makes exactly one remote call, getClock, and never
\* calls getEntries; `status` without --prompt has issued both getClock and
\* getEntries, the latter for today's range, before it prints anything.
C23_StatusCalls ==
    cmd = "status" =>
        /\ cmdOpts.prompt =>
              /\ CallCount("getEntries") = 0
              /\ Len(calls) <= 1
              /\ pc # "start" => calls = <<[op |-> "getClock"]>>
        /\ ~cmdOpts.prompt =>
              /\ CallCount("getClock") <= 1 /\ CallCount("getEntries") <= 1
              /\ output # <<>> =>
                    /\ Len(calls) = 2
                    /\ CallCount("getClock") = 1 /\ CallCount("getEntries") = 1
                    /\ \A i \in 1 .. 2 :
                          calls[i].op = "getEntries" =>
                              IsDayOf(calls[i].timeSince, calls[i].timeUntil, now[1])

\* C23's case: `status --prompt` has printed its line after its one call.
C23_Witness ==
    /\ cmd = "status" /\ cmdOpts.prompt /\ Ended /\ output # <<>>
    /\ calls = <<[op |-> "getClock"]>>

\* The stored durations of the time entries of the list from position i on.
RECURSIVE StoredFrom(_, _)
StoredFrom(es, i) ==
    IF i > Len(es) THEN 0
    ELSE (IF es[i].type = 1 /\ es[i].duration # <<>> THEN es[i].duration[1] ELSE 0)
         + StoredFrom(es, i + 1)

\* The summary of `status` has been printed.
StatusPrinted == cmd = "status" /\ output # <<>> /\ output[1].kind = "status"

\* C29: in the output of `status`, today.totalSeconds is the sum of the stored
\* durations of today's time entries plus running.elapsed (0 when no clock is
\* running): the running entry, whose stored duration is null, counts once, and
\* the elapsed value of the total is the one printed as running.elapsed, the
\* whole seconds from the running entry's start to the clock as it was read
\* between the start of the command and now.
C29_StatusTotal ==
    StatusPrinted =>
        LET elapsed == IF output[1].running = <<>> THEN 0
                       ELSE output[1].running[1].elapsed
        IN /\ output[1].today.totalSeconds = StoredFrom(entryList, 1) + elapsed
           /\ (output[1].running = <<>>) = (clockReply[1].running = <<>>)
           /\ output[1].running # <<>> =>
                 /\ elapsed >= (now[1] - clockReply[1].running[1].timeSince) \div 1000
                 /\ elapsed <= (clock - clockReply[1].running[1].timeSince) \div 1000

\* C29's case: a clock is running, and today's entries are a closed one and the
\* running one.
C29_Witness ==
    /\ StatusPrinted /\ output[1].running # <<>> /\ Len(entryList) = 2
    /\ \E i, j \in 1 .. 2 :
          /\ entryList[i].duration = <<3600>>
          /\ entryList[j].duration = <<>> /\ entryList[j].type = 1
    /\ output[1].running[1].elapsed >= 3599
    /\ output[1].today.totalSeconds = 3600 + output[1].running[1].elapsed

\* ---------------------------------------------------------------- start, create, delete claims

\* 1 for true, 0 for false.
AsBillable(b) == IF b THEN 1 ELSE 0

\* C24: `entries create` sends billable 1 with --billable and 0 with
\* --no-billable; with neither flag it sends the billableDefault of the project
\* when a project is given, of the customer otherwise.
C24_BillableDefaults ==
    cmd = "create" =>
        /\ \A i \in 1 .. Len(calls) :
              calls[i].op = "addEntry" =>
                  calls[i].billable =
                      <<IF cmdOpts.billable # <<>> THEN AsBillable(cmdOpts.billable[1])
                        ELSE IF calls[i].projectsId # <<>>
                        THEN AsBillable(billableDefaults.project)
                        ELSE AsBillable(billableDefaults.customer)>>
        /\ (/\ Ended /\ cmdOpts.billable = <<FALSE>> /\ remoteError = <<>>
            /\ filterArgs.customer # <<>> /\ filterArgs.service # <<>>) =>
              CallCount("addEntry") = 1

\* No customer id or no service id comes from the flags or the config.
IdUnavailable ==
    \/ filterArgs.customer = <<>> /\ defaults.customer = <<>>
    \/ filterArgs.service = <<>> /\ defaults.service = <<>>

\* Prompting is not allowed: the output mode is JSON or plain (by flag, or JSON
\* because stdout is no terminal), or --no-input was given.
PromptingNotAllowed ==
    \/ globalFlags.json \/ globalFlags.plain \/ globalFlags.noInput
    \/ ~stdio.isTTY /\ stdio.autoJson # <<"0">>

\* C25: when prompting is not allowed and a customer id or a service id is
\* missing, `start` and `entries create` (invoked with options they declare)
\* fail with INVALID_ARGS and never call startClock / addEntry.
C25_NoPromptInvalidArgs ==
    (cmd \in {"start", "create"} /\ PromptingNotAllowed /\ IdUnavailable
     /\ ~(cmd = "create" /\ cmdOpts.billable = <<FALSE>>)) =>
        /\ CallCount("startClock") = 0 /\ CallCount("addEntry") = 0
        /\ Ended => exitCode = <<"INVALID_ARGS">>

\* The remote delete operations.
DeleteCount ==
    Cardinality({i \in 1 .. Len(calls) :
                    calls[i].op \in {"deleteEntry", "deleteCustomer", "deleteProject",
                                     "deleteService", "deleteAbsence"}})

\* C30: every delete command calls the remote delete at most once; never when
\* the confirmation is required (no --force, stdout a terminal) and the user
\* declines or cancels; and an id that is not a positive integer raises
\* INVALID_ARGS without a remote delete.
C30_DeleteGuarded ==
    cmd \in {"entries delete", "customers delete", "projects delete", "services delete",
             "absences delete"} =>
        /\ DeleteCount <= 1
        /\ (~cmdOpts.force /\ stdio.isTTY /\ picked # <<>> /\ picked[1].confirm # "yes") =>
              DeleteCount = 0
        /\ cmdOpts.id \in {"0", "-3", "1.5", "abc"} =>
              /\ DeleteCount = 0
              /\ Ended => exitCode = <<"INVALID_ARGS">>

\* ---------------------------------------------------------------- remote failures

\* C21: a failed remote call is never retried and aborts the command: no remote
\* call is issued twice in one invocation; once a remote call has failed, no
\* further remote call is started, nothing is printed as a result, and the
\* command has ended with an exit status that is not success.
C21_FailureAborts ==
    /\ [](\A i, j \in 1 .. Len(calls) : calls[i] = calls[j] => i = j)
    /\ [](remoteError # <<>> =>
             /\ output = <<>>
             /\ pc = "done" /\ exitCode # <<>> /\ exitCode # <<"SUCCESS">>)
    /\ [][remoteError # <<>> => (calls' = calls /\ output' = output)]_vars

\* C21's case: the second remote call of a command has failed, after the first
\* had succeeded.
C21_Witness ==
    /\ remoteError # <<>> /\ Ended /\ Len(calls) = 2 /\ clockReply # <<>>
    /\ calls[2].op = "stopClock" /\ output = <<>>

====
